---- MODULE Spec2Model ----
(***************************************************************************)
(* OpenManus agents: the BaseAgent run loop (app/agent/base.py), the       *)
(* tool-calling think/act cycle (app/agent/toolcall.py) and the            *)
(* Coordinator with its TODO.md checklist (app/agent/coordinator.py), and  *)
(* the web server's WebSocketManager (app/web/server.py).                  *)
(*                                                                         *)
(* Ten specifications share the state:                                      *)
(*   SpecLoop      BaseAgent.run() driving an abstract step()              *)
(*   SpecToolCall  BaseAgent.run() driving ToolCallAgent think()/act()     *)
(*   SpecCoord     CoordinatorAgent.run() over a checklist document        *)
(*   FreshCoord    CoordinatorAgent.run() in an empty workspace, with      *)
(*                 steps to spare and every step running to its end        *)
(*   SpecWeb       WebSocketManager serving chat messages of connections   *)
(*   SpecEndpoint  websocket_endpoint and _keep_alive of each connection   *)
(*   SpecOrphans   ToolCallAgent._clean_orphaned_tool_calls on held        *)
(*                 conversations                                           *)
(*   SpecRepair    BaseAgent.run() called on an agent that holds a         *)
(*                 conversation                                            *)
(*   SpecTruncate  truncate_text applied to the texts the server shows     *)
(*   SpecParse     parse_tasks applied to a checklist document, and        *)
(*                 create_todo_file applied to an answer of the model      *)
(***************************************************************************)
EXTENDS Integers, Sequences, FiniteSets, TLC

VARIABLES
    \* ---- BaseAgent ----
    state,          \* AgentState: "IDLE" | "RUNNING" | "FINISHED" | "ERROR"
    previous_state, \* state_context's saved state
    current_step,   \* BaseAgent.current_step
    max_steps,      \* BaseAgent.max_steps
    messages,       \* memory.messages
    stuck_prompts,  \* how many times handle_stuck_state prefixed next_step_prompt
    pc,             \* position of the run() coroutine
    final_result,   \* what run() returned ("none" while it has not)
    exc,            \* the exception run() raised ("none" if none)
    step_calls,     \* number of step() invocations of this run
    stuck_seen,     \* value of is_stuck() at the last check of the loop
    finish_seen,    \* history: some step of this run set the state to FINISHED
    entry_state,    \* history: the state the agent was in when run() was called
    sandbox,        \* SANDBOX_CLIENT's session: "none" | "held" | "released"
    \* ---- ToolCallAgent ----
    tool_choices,   \* ToolChoice: "auto" | "required" | "none"
    tool_calls,     \* self.tool_calls
    response,       \* the last answer of the language model
    think_ret,      \* what the last think() returned ("unset" | TRUE | FALSE)
    next_id,        \* next fresh tool-call id the model will emit
    act_i,          \* index of act()'s loop over tool_calls
    sent,           \* the conversation handed to the last llm.ask_tool call
    step_exc,       \* the exception step() raised and where ("none" if none)
    \* ---- CoordinatorAgent ----
    tasks,          \* self.tasks
    todo_file,      \* content of TODO.md (a string as a tuple of characters) or Absent
    context_file,   \* content of Context.md or Absent
    context_content,\* self.context_content
    summary,        \* self.summary
    next_task,      \* index in tasks of the task being executed (0: none)
    delegated,      \* history: task indices handed to Manus, in order
    run_result,     \* result string of the last delegated run
    delegate_end,   \* how the last delegated run ended
    todo_before,    \* todo_content_before of execute_task_with_manus
    attempt,        \* retry counter of the persistence loop
    update_successful, \* execute_task_with_manus's local flag
    original_request,  \* self.original_request
    ctx_writes,     \* history: how many times this run wrote Context.md
    phases,         \* history: phases performed by the current step()
    loaded_doc,     \* history: the document as read by the loading phase, and after it
    read_tasks,     \* history: the tasks as the load of this run read them
    \* ---- WebSocketManager ----
    manus_running,  \* self.manus_running
    status,         \* self.status
    active_connections, \* self.active_connections
    chats,          \* the process_chat_message tasks created so far, in order
    notices,        \* number of busy notices broadcast
    current_action, \* self.current_action
    shown,          \* the last text shortened for display, and the limit used
    sockets         \* per connection: its endpoint handler, its keep-alive task
                    \* and the age of its last_activity entry

baseVars == <<state, previous_state, current_step, max_steps, messages,
              stuck_prompts, pc, final_result, exc, step_calls, stuck_seen,
              finish_seen, entry_state, sandbox>>
tcVars   == <<tool_choices, tool_calls, response, think_ret, next_id, act_i,
              sent, step_exc>>
coVars   == <<tasks, todo_file, context_file, context_content, summary,
              next_task, delegated, run_result, delegate_end, todo_before, attempt,
              update_successful, original_request, ctx_writes, phases,
              loaded_doc, read_tasks>>
webVars  == <<manus_running, status, active_connections, chats, notices,
              current_action, shown, sockets>>
vars     == <<baseVars, tcVars, coVars, webVars>>

-----------------------------------------------------------------------------
(* Bounds *)

\* max_steps ranges over 1..MaxStepsLoop in SpecLoop
MaxStepsLoop == 3
\* max_steps ranges over 1..MaxStepsTC in SpecToolCall
MaxStepsTC == 2
\* tool-call ids the model may emit in one conversation (caps next_id)
MaxIds == 2
\* lines below the optional header in a checklist document or a model answer
MaxDocLines == 2

\* BaseAgent.duplicate_threshold
duplicate_threshold == 2

\* execute_task_with_manus: max_retries
max_retries == 3

\* a file that does not exist (no text holds this character)
Absent == <<"<absent>">>

-----------------------------------------------------------------------------
(* Messages (app.schema.Message as used by the agents) *)

NoCalls == <<>>

user_message(c) ==
    [role |-> "user", content |-> c, tool_calls |-> NoCalls, tool_call_id |-> 0]
assistant_message(c) ==
    [role |-> "assistant", content |-> c, tool_calls |-> NoCalls, tool_call_id |-> 0]
from_tool_calls(c, calls) ==
    [role |-> "assistant", content |-> c, tool_calls |-> calls, tool_call_id |-> 0]
tool_message(c, id) ==
    [role |-> "tool", content |-> c, tool_calls |-> NoCalls, tool_call_id |-> id]

Range(s) == {s[i] : i \in 1..Len(s)}

\* the subsequence of s at the indices in keep, in order
RECURSIVE KeepIdx(_, _, _)
KeepIdx(s, keep, i) ==
    IF i > Len(s) THEN <<>>
    ELSE (IF i \in keep THEN <<s[i]>> ELSE <<>>) \o KeepIdx(s, keep, i + 1)

-----------------------------------------------------------------------------
(* BaseAgent *)

\* is_stuck comparing with > instead of >= (off by one)
is_stuck_mut(msgs) ==
    IF Len(msgs) < 2 THEN FALSE
    ELSE LET last == msgs[Len(msgs)] IN
         IF last.content = "" THEN FALSE
         ELSE Cardinality({i \in 1..(Len(msgs) - 1) :
                  /\ msgs[i].role = "assistant"
                  /\ msgs[i].content = last.content}) > duplicate_threshold

\* BaseAgent.is_stuck
is_stuck(msgs) ==
    IF Len(msgs) < 2 THEN FALSE
    ELSE LET last == msgs[Len(msgs)] IN
         IF last.content = "" THEN FALSE
         ELSE Cardinality({i \in 1..(Len(msgs) - 1) :
                  /\ msgs[i].role = "assistant"
                  /\ msgs[i].content = last.content}) >= duplicate_threshold

\* BaseAgent._clean_tool_call_references: tool_responses maps each correlation
\* id to the index of the LAST tool message that carries it; the tool messages
\* recorded there whose id no assistant message declares are dropped.
_clean_tool_call_references(msgs) ==
    LET valid_tool_call_ids ==
            UNION {{c.id : c \in Range(msgs[i].tool_calls)} :
                      i \in {j \in 1..Len(msgs) : msgs[j].role = "assistant"}}
        toolIdx == {i \in 1..Len(msgs) :
                       msgs[i].role = "tool" /\ msgs[i].tool_call_id # 0}
        lastOf(id) == CHOOSE i \in toolIdx :
                          /\ msgs[i].tool_call_id = id
                          /\ \A j \in toolIdx :
                                msgs[j].tool_call_id = id => j <= i
        orphan_tool_messages ==
            {lastOf(msgs[i].tool_call_id) : i \in
                {j \in toolIdx : msgs[j].tool_call_id \notin valid_tool_call_ids}}
    IN  IF Len(msgs) = 0 THEN msgs
        ELSE KeepIdx(msgs, (1..Len(msgs)) \ orphan_tool_messages, 1)

\* the while condition of run() with the bound off by one
LoopCondition_mut == state = "RUNNING" /\ current_step <= max_steps

\* run(): the while condition (lines 168-171)
LoopCondition == state = "RUNNING" /\ current_step < max_steps

\* state_context's finally clause forgotten: the state is left as it is
state_context_exit_mut(prev, cur) == cur

\* state_context: "finally: self.state = previous_state"
state_context_exit(prev, cur) == prev

\* run(): the choice of the final result (lines 210-222)
FinalResult ==
    IF current_step >= max_steps /\ state # "FINISHED"
    THEN "max_steps" ELSE "completed"

\* run() keeping the state it was called in
ResetState_mut(s) == s

\* run(), lines 147-153: whatever the state at the call (a warning is logged
\* when it is not IDLE or FINISHED), the state is reset to IDLE
ResetState(s) == "IDLE"

\* run() adding the request to the memory it holds, without clearing it
MemoryAtRun_mut(request, msgs) ==
    IF request # "" THEN Append(msgs, user_message(request)) ELSE msgs
\* run(), lines 156-160: the memory is cleared and the request added when a
\* request is given
MemoryAtRun(request, msgs) ==
    IF request # "" THEN <<user_message(request)>> ELSE msgs

\* run(request) up to the loop: reset, memory, base repair, state_context entry
RunEnter(request) ==
    /\ pc = "ready"
    /\ messages' = _clean_tool_call_references(MemoryAtRun(request, messages))
    /\ current_step' = 0
    /\ entry_state' = state
    /\ previous_state' = ResetState(state)   \* state_context saves the state
    /\ state' = "RUNNING"
    /\ step_calls' = 0
    /\ finish_seen' = FALSE
    /\ final_result' = "none"
    /\ exc' = "none"
    /\ pc' = "loop"
    /\ UNCHANGED <<max_steps, stuck_prompts, stuck_seen, sandbox>>

\* one more iteration of the while loop: the step counter, then step()
LoopEnterStep ==
    /\ pc = "loop"
    /\ LoopCondition
    /\ current_step' = current_step + 1
    /\ step_calls' = step_calls + 1
    /\ pc' = "step"
    /\ UNCHANGED <<state, previous_state, entry_state, sandbox, max_steps, messages, stuck_prompts,
                   final_result, exc, stuck_seen, finish_seen>>

\* the loop ends: final result, then state_context's exit
LoopExit ==
    /\ pc = "loop"
    /\ ~LoopCondition
    /\ final_result' = FinalResult
    /\ state' = state_context_exit(previous_state, state)
    /\ pc' = "returned"
    /\ UNCHANGED <<previous_state, entry_state, sandbox, current_step, max_steps, messages,
                   stuck_prompts, exc, step_calls, stuck_seen, finish_seen>>

\* run(): "except Exception as e" around step() (lines 186-194).  The handler
\* evaluates isinstance(e.__cause__, TokenLimitExceeded), and base.py never
\* imports TokenLimitExceeded: the handler itself fails with a NameError, for
\* every exception of step().
StepHandlerOutcome(e) == [returns |-> FALSE, raises |-> "NameError"]

\* step() raised: the handler, then the outer except (state = ERROR, re-raise),
\* then state_context's except and finally
StepFailed ==
    /\ pc = "step_raised"
    /\ LET h == StepHandlerOutcome(step_exc) IN
         /\ exc' = h.raises
         /\ final_result' = "none"
    /\ state' = state_context_exit(previous_state, "ERROR")
    /\ pc' = "raised"
    /\ UNCHANGED <<previous_state, entry_state, sandbox, current_step, max_steps, messages,
                   stuck_prompts, step_calls, stuck_seen, finish_seen>>

\* after a step: is_stuck(), and handle_stuck_state() when stuck
CheckStuck ==
    /\ pc = "check_stuck"
    /\ stuck_seen' = is_stuck(messages)
    /\ stuck_prompts' = IF is_stuck(messages) THEN stuck_prompts + 1
                        ELSE stuck_prompts
    /\ pc' = "loop"
    /\ UNCHANGED <<state, previous_state, entry_state, sandbox, current_step, max_steps, messages,
                   final_result, exc, step_calls, finish_seen>>

-----------------------------------------------------------------------------
(* SpecLoop: run() with the abstract step() of BaseAgent.  A step may append  *)
(* one message, and it returns, signals Finished, or raises.                  *)

ContentSet == {"", "a", "b"}
StepMessages ==
    {assistant_message(c) : c \in ContentSet} \cup
    {tool_message(c, 0) : c \in ContentSet \ {""}}

\* the sandbox session is acquired on first use, by a tool a step runs; no
\* statement of run() releases it (base.py imports SANDBOX_CLIENT and never
\* uses it)
SandboxAfterStep(s) == {s, "held"}

\* BaseAgent.step (abstract): what a subclass's step may do to the agent
AbstractStep ==
    /\ pc = "step"
    /\ \E add \in {<<>>} \cup {<<m>> : m \in StepMessages} :
          messages' = messages \o add
    /\ \/ /\ pc' = "check_stuck"
          /\ UNCHANGED <<state, finish_seen, step_exc>>
       \/ /\ state' = "FINISHED"
          /\ finish_seen' = TRUE
          /\ pc' = "check_stuck"
          /\ UNCHANGED step_exc
       \/ /\ \E cause \in {"TokenLimitExceeded", "none"} :
                step_exc' = [type |-> "Exception", cause |-> cause, from |-> "step"]
          /\ pc' = "step_raised"
          /\ UNCHANGED <<state, finish_seen>>
    /\ sandbox' \in SandboxAfterStep(sandbox)
    /\ UNCHANGED <<previous_state, entry_state, current_step, max_steps, stuck_prompts,
                   final_result, exc, step_calls, stuck_seen>>

NoExc == [type |-> "none", cause |-> "none", from |-> "none"]
NoResponse == [kind |-> "unset", content |-> "", tool_calls |-> NoCalls]

tcIdle ==
    /\ tool_calls = NoCalls
    /\ response = NoResponse
    /\ think_ret = "unset"
    /\ next_id = 1
    /\ act_i = 0
    /\ sent = <<>>

coIdle ==
    /\ tasks = <<>>
    /\ todo_file = Absent
    /\ context_file = Absent
    /\ context_content = <<>>
    /\ summary = <<>>
    /\ next_task = 0
    /\ delegated = <<>>
    /\ run_result = <<>>
    /\ delegate_end = "none"
    /\ todo_before = <<>>
    /\ attempt = 0
    /\ update_successful = FALSE
    /\ original_request = ""
    /\ ctx_writes = 0
    /\ phases = <<>>
    /\ loaded_doc = <<>>
    /\ read_tasks = <<>>

NoneShown == [max_length |-> 0, text |-> <<>>]

\* websocket connections that may be opened
Connections == {"c1", "c2"}
\* a connection no endpoint handler was started for.  ep is the position of
\* websocket_endpoint, ka that of _keep_alive; last is the age of the
\* connection's last_activity entry in periods of 30 seconds (-1: no entry);
\* ep_due and ka_due are the periods left of wait_for's timeout and of the
\* sleep; bc_at and bc_failed are the loop index and the failed_connections
\* of a broadcast the handler is in
NoSocket == [ep |-> "none", ka |-> "none", last |-> -1, ep_due |-> 0, ka_due |-> 0,
             bc_at |-> 0, bc_failed |-> {}]

\* WebSocketManager.__init__
webIdle ==
    /\ manus_running = FALSE
    /\ status = "idle"
    /\ active_connections = {}
    /\ chats = <<>>
    /\ notices = 0
    /\ current_action = <<>>
    /\ shown = NoneShown
    /\ sockets = [c \in Connections |-> NoSocket]

\* AgentState
AgentStates == {"IDLE", "RUNNING", "FINISHED", "ERROR"}

\* An agent object before a call of run(): fresh, or left by an earlier run
\* (the step counter wherever that run ended); state is a public field, and
\* run() may be called whatever it holds.
InitLoop ==
    /\ max_steps \in 1..MaxStepsLoop
    /\ current_step \in {0, max_steps}
    /\ state \in AgentStates
    /\ entry_state = "none"
    /\ sandbox = "none"
    /\ previous_state = "IDLE"
    /\ messages = <<>>
    /\ stuck_prompts = 0
    /\ pc = "ready"
    /\ final_result = "none"
    /\ exc = "none"
    /\ step_calls = 0
    /\ stuck_seen = FALSE
    /\ finish_seen = FALSE
    /\ step_exc = NoExc
    /\ tool_choices = "auto"
    /\ tcIdle
    /\ coIdle
    /\ webIdle

LoopRun ==
    /\ \E request \in {"", "req"} : RunEnter(request)
    /\ UNCHANGED <<step_exc>>

NextLoop ==
    \/ LoopRun /\ UNCHANGED <<tool_choices, tool_calls, response, think_ret, next_id, act_i, sent>> /\ UNCHANGED coVars /\ UNCHANGED webVars
    \/ LoopEnterStep /\ UNCHANGED <<tcVars, coVars>> /\ UNCHANGED webVars
    \/ LoopExit /\ UNCHANGED <<tcVars, coVars>> /\ UNCHANGED webVars
    \/ StepFailed /\ UNCHANGED <<tcVars, coVars>> /\ UNCHANGED webVars
    \/ CheckStuck /\ UNCHANGED <<tcVars, coVars>> /\ UNCHANGED webVars
    \/ AbstractStep /\ UNCHANGED <<tool_choices, tool_calls, response, think_ret, next_id, act_i, sent>> /\ UNCHANGED coVars /\ UNCHANGED webVars

SpecLoop == InitLoop /\ [][NextLoop]_vars

-----------------------------------------------------------------------------
(* ToolCallAgent: think() and act() *)

ToolNames == {"terminate", "python_execute", "bogus"}
\* available_tools.tool_map of the agent: "bogus" is a name the model made up
KnownTools == {"terminate", "python_execute"}
\* special_tool_names
SpecialTools == {"terminate"}
TCContents == {"", "a"}
TOOL_CALL_REQUIRED == "Tool calls required but none provided"

\* next_step_prompt, after k calls of handle_stuck_state (each adds a prefix)
NextStepPrompt(k) == IF k = 0 THEN "next_step" ELSE "stuck+next_step"

\* the tool calls a response may carry: n calls with the fresh ids first..first+n-1
CallLists(first, n) ==
    {[k \in 1..n |-> [id |-> first + k - 1, name |-> f[k]]] : f \in [1..n -> ToolNames]}

Responses ==
    {[kind |-> "answer", content |-> c, tool_calls |-> calls] :
        c \in TCContents,
        calls \in UNION {CallLists(next_id, n) : n \in 0..(MaxIds + 1 - next_id)}}

\* the repair dropping the invocation list of every assistant message,
\* answered or not
_clean_orphaned_tool_calls_mut(msgs) ==
    [i \in 1..Len(msgs) |->
        IF msgs[i].role = "assistant" THEN assistant_message(msgs[i].content)
        ELSE msgs[i]]

\* the repair cleaning only the first assistant message it finds with an
\* unanswered id
_clean_orphaned_tool_calls_first(msgs) ==
    LET tool_call_ids == {msgs[i].tool_call_id :
                             i \in {j \in 1..Len(msgs) : msgs[j].role = "tool"}}
        orphaned == {i \in 1..Len(msgs) :
                        /\ msgs[i].role = "assistant"
                        /\ \E c \in Range(msgs[i].tool_calls) : c.id \notin tool_call_ids}
    IN  [i \in 1..Len(msgs) |->
            IF i \in orphaned /\ \A j \in orphaned : i <= j
            THEN assistant_message(msgs[i].content)
            ELSE msgs[i]]

\* ToolCallAgent._clean_orphaned_tool_calls: an assistant message that declares
\* an id no tool message answers loses its invocation list (assistant_tool_call_ids
\* keeps, for each id, the index of the last assistant message declaring it);
\* tool messages are never removed.
_clean_orphaned_tool_calls(msgs) ==
    LET declaring(id) == {i \in 1..Len(msgs) :
                             /\ msgs[i].role = "assistant"
                             /\ \E c \in Range(msgs[i].tool_calls) : c.id = id}
        declared == UNION {{c.id : c \in Range(msgs[i].tool_calls)} :
                              i \in {j \in 1..Len(msgs) : msgs[j].role = "assistant"}}
        assistant_tool_call_ids(id) ==
            CHOOSE i \in declaring(id) : \A j \in declaring(id) : j <= i
        tool_call_ids == {msgs[i].tool_call_id :
                             i \in {j \in 1..Len(msgs) : msgs[j].role = "tool"}}
        orphaned_tool_call_ids ==
            {<<id, assistant_tool_call_ids(id)>> : id \in declared \ tool_call_ids}
        has_orphaned(i) ==
            \E c \in Range(msgs[i].tool_calls) : <<c.id, i>> \in orphaned_tool_call_ids
    IN  [i \in 1..Len(msgs) |->
            IF /\ msgs[i].role = "assistant"
               /\ msgs[i].tool_calls # NoCalls
               /\ has_orphaned(i)
            THEN assistant_message(msgs[i].content)
            ELSE msgs[i]]

\* think()'s decision with the Required case returning bool(tool_calls)
ThinkDecision_mut(mode, content, calls) ==
    IF mode = "none"
    THEN [append |-> IF content # "" THEN <<assistant_message(content)>> ELSE <<>>,
          ret |-> content # ""]
    ELSE [append |-> <<IF calls # NoCalls THEN from_tool_calls(content, calls)
                       ELSE assistant_message(content)>>,
          ret |-> IF mode = "auto" /\ calls = NoCalls THEN content # ""
                  ELSE calls # NoCalls]

\* think(), lines 134-167: the message appended and the value returned, by
\* tool-choice mode
ThinkDecision(mode, content, calls) ==
    IF mode = "none"
    THEN [append |-> IF content # "" THEN <<assistant_message(content)>> ELSE <<>>,
          ret |-> content # ""]
    ELSE [append |-> <<IF calls # NoCalls THEN from_tool_calls(content, calls)
                       ELSE assistant_message(content)>>,
          ret |-> IF mode = "required" /\ calls = NoCalls THEN TRUE
                  ELSE IF mode = "auto" /\ calls = NoCalls THEN content # ""
                  ELSE calls # NoCalls]

\* the conversation think() hands to llm.ask_tool: the steering prompt is
\* appended, then the repair runs
ThinkPrepared ==
    _clean_orphaned_tool_calls(
        Append(messages, user_message(NextStepPrompt(stuck_prompts))))

\* ReActAgent.step: act() follows think() when think() returned true
ReActStep(should_act) == IF should_act THEN "act" ELSE "check_stuck"

\* think() where llm.ask_tool answers (lines 97-167)
ThinkAnswer ==
    /\ pc = "step"
    /\ \E r \in Responses :
          LET d == ThinkDecision(tool_choices, r.content, r.tool_calls) IN
          /\ response' = r
          /\ tool_calls' = r.tool_calls
          /\ next_id' = next_id + Len(r.tool_calls)
          /\ messages' = ThinkPrepared \o d.append
          /\ think_ret' = d.ret
          /\ pc' = ReActStep(d.ret)
    /\ sent' = ThinkPrepared
    /\ UNCHANGED <<state, finish_seen, step_exc, act_i, tool_choices>>

\* think() where llm.ask_tool returns no response: RuntimeError inside the
\* try block, turned into an assistant message (lines 128-132, 168-180)
ThinkNoResponse ==
    /\ pc = "step"
    /\ response' = [kind |-> "none", content |-> "", tool_calls |-> NoCalls]
    /\ tool_calls' = NoCalls
    /\ messages' = Append(ThinkPrepared,
                      assistant_message("Error encountered while processing"))
    /\ think_ret' = FALSE
    /\ pc' = ReActStep(FALSE)
    /\ sent' = ThinkPrepared
    /\ UNCHANGED <<state, finish_seen, step_exc, act_i, tool_choices, next_id>>

\* the token-limit branch reporting the failure without finishing the agent
ThinkOnTokenLimit_mut(s) ==
    [append |-> <<assistant_message("Maximum token limit reached")>>,
     state |-> s, ret |-> FALSE]
\* think(), lines 78-90: the message appended, the state set and the value
\* returned when the failure's cause is a TokenLimitExceeded
ThinkOnTokenLimit(s) ==
    [append |-> <<assistant_message("Maximum token limit reached")>>,
     state |-> "FINISHED", ret |-> FALSE]

\* think() where llm.ask_tool fails with TokenLimitExceeded as its cause
\* (lines 76-90)
ThinkTokenLimit ==
    /\ pc = "step"
    /\ response' = [kind |-> "TokenLimit", content |-> "", tool_calls |-> NoCalls]
    /\ LET t == ThinkOnTokenLimit(state) IN
          /\ messages' = ThinkPrepared \o t.append
          /\ state' = t.state
          /\ finish_seen' = (finish_seen \/ t.state = "FINISHED")
          /\ think_ret' = t.ret
          /\ pc' = ReActStep(t.ret)
    /\ sent' = ThinkPrepared
    /\ UNCHANGED <<step_exc, act_i, tool_choices, next_id, tool_calls>>

\* think() where llm.ask_tool fails otherwise: ValueError (lines 72-75) or any
\* other exception (lines 92-95) is re-raised
ThinkRaises ==
    /\ pc = "step"
    /\ \E t \in {"ValueError", "Exception"} :
          /\ response' = [kind |-> t, content |-> "", tool_calls |-> NoCalls]
          /\ step_exc' = [type |-> t, cause |-> "none", from |-> "think"]
    /\ messages' = ThinkPrepared
    /\ think_ret' = "unset"
    /\ pc' = "step_raised"
    /\ sent' = ThinkPrepared
    /\ UNCHANGED <<state, finish_seen, act_i, tool_choices, next_id, tool_calls>>

\* act() with no tool calls (lines 184-193)
ActNoCalls ==
    /\ pc = "act"
    /\ tool_calls = NoCalls
    /\ IF tool_choices = "required"
       THEN /\ step_exc' = [type |-> "ValueError", cause |-> TOOL_CALL_REQUIRED,
                            from |-> "act"]
            /\ pc' = "step_raised"
       ELSE /\ pc' = "check_stuck"
            /\ UNCHANGED step_exc
    /\ UNCHANGED <<state, finish_seen, messages, tool_choices, tool_calls,
                   response, think_ret, next_id, act_i, sent>>

\* act() with tool calls: the loop starts (lines 195-201)
ActBegin ==
    /\ pc = "act"
    /\ tool_calls # NoCalls
    /\ act_i' = 1
    /\ pc' = "act_loop"
    /\ UNCHANGED <<state, finish_seen, messages, tool_choices, tool_calls,
                   response, think_ret, next_id, sent, step_exc>>

\* execute_tool: the ways one invocation can end.  The arguments and the
\* handler are the model's and the tool's: whether json.loads or the handler
\* fails is the environment's choice.
ToolOutcomes(name) ==
    IF name \notin KnownTools THEN {"unknown"}
    ELSE {"ok", "bad_json", "handler_raises"}

\* execute_tool's observation (lines 233-342)
Observation(outcome) ==
    CASE outcome = "unknown"        -> "Error: Unknown tool"
      [] outcome = "bad_json"       -> "Error: Error parsing arguments"
      [] outcome = "handler_raises" -> "Error: Tool encountered a problem"
      [] outcome = "ok"             -> "Observed output of cmd"

\* the observations of execute_tool that begin with "Error:" (lines 240, 333,
\* 342)
ErrorObservations ==
    {"Error: Unknown tool", "Error: Error parsing arguments",
     "Error: Tool encountered a problem"}

\* act() recording no message for an invocation that failed
ActMessages_mut(msgs, result, command) ==
    IF result \in ErrorObservations THEN msgs
    ELSE Append(msgs, tool_message(result, command.id))
\* act(), lines 209-226: the tool message of one invocation, correlated by the
\* invocation's id, is added to memory whatever execute_tool returned
\* (max_observe is None, the default: the result is not truncated)
ActMessages(msgs, result, command) ==
    Append(msgs, tool_message(result, command.id))

\* a special tool finishing the agent however its invocation ended
FinishesExecution_mut(name, outcome) == name \in SpecialTools
\* execute_tool, lines 288-301, and _handle_special_tool: a special tool whose
\* handler returned finishes the agent; when json.loads or the handler raises,
\* _handle_special_tool is not reached
FinishesExecution(name, outcome) == outcome = "ok" /\ name \in SpecialTools

\* act()'s loop leaving the list once the agent is Finished
ActLoopOver_mut(i, calls, s) == i > Len(calls) \/ s = "FINISHED"
\* act(), line 201: "for i, command in enumerate(self.tool_calls, 1)" runs
\* through the whole list; no statement of the body leaves the loop
ActLoopOver(i, calls, s) == i > Len(calls)

\* one iteration of act()'s loop: execute_tool, then the tool message
\* (lines 201-226)
ActTool ==
    /\ pc = "act_loop"
    /\ ~ActLoopOver(act_i, tool_calls, state)
    /\ LET command == tool_calls[act_i] IN
       \E outcome \in ToolOutcomes(command.name) :
          /\ messages' = ActMessages(messages, Observation(outcome), command)
          /\ IF FinishesExecution(command.name, outcome)
             THEN state' = "FINISHED" /\ finish_seen' = TRUE
             ELSE UNCHANGED <<state, finish_seen>>
    /\ act_i' = act_i + 1
    /\ UNCHANGED <<pc, tool_choices, tool_calls, response, think_ret, next_id,
                   sent, step_exc>>

\* act() returns the joined results (lines 228-231)
ActEnd ==
    /\ pc = "act_loop"
    /\ ActLoopOver(act_i, tool_calls, state)
    /\ pc' = "check_stuck"
    /\ UNCHANGED <<state, finish_seen, messages, tool_choices, tool_calls,
                   response, think_ret, next_id, act_i, sent, step_exc>>

\* A ToolCallAgent before run(request): its tool-choice mode is configuration
InitToolCall ==
    /\ max_steps \in 1..MaxStepsTC
    /\ tool_choices \in {"auto", "required", "none"}
    /\ current_step = 0
    /\ state = "IDLE"
    /\ entry_state = "none"
    /\ sandbox = "none"
    /\ previous_state = "IDLE"
    /\ messages = <<>>
    /\ stuck_prompts = 0
    /\ pc = "ready"
    /\ final_result = "none"
    /\ exc = "none"
    /\ step_calls = 0
    /\ stuck_seen = FALSE
    /\ finish_seen = FALSE
    /\ step_exc = NoExc
    /\ tcIdle
    /\ coIdle
    /\ webIdle

tcStepFrame == UNCHANGED <<previous_state, entry_state, sandbox, current_step, max_steps, stuck_prompts,
                           final_result, exc, step_calls, stuck_seen>>

NextToolCall ==
    \/ RunEnter("req") /\ UNCHANGED <<tcVars, coVars>> /\ UNCHANGED webVars
    \/ LoopEnterStep /\ UNCHANGED <<tcVars, coVars>> /\ UNCHANGED webVars
    \/ LoopExit /\ UNCHANGED <<tcVars, coVars>> /\ UNCHANGED webVars
    \/ StepFailed /\ UNCHANGED <<tcVars, coVars>> /\ UNCHANGED webVars
    \/ CheckStuck /\ UNCHANGED <<tcVars, coVars>> /\ UNCHANGED webVars
    \/ ThinkAnswer /\ tcStepFrame /\ UNCHANGED coVars /\ UNCHANGED webVars
    \/ ThinkNoResponse /\ tcStepFrame /\ UNCHANGED coVars /\ UNCHANGED webVars
    \/ ThinkTokenLimit /\ tcStepFrame /\ UNCHANGED coVars /\ UNCHANGED webVars
    \/ ThinkRaises /\ tcStepFrame /\ UNCHANGED coVars /\ UNCHANGED webVars
    \/ ActNoCalls /\ tcStepFrame /\ UNCHANGED coVars /\ UNCHANGED webVars
    \/ ActBegin /\ tcStepFrame /\ UNCHANGED coVars /\ UNCHANGED webVars
    \/ ActTool /\ tcStepFrame /\ UNCHANGED coVars /\ UNCHANGED webVars
    \/ ActEnd /\ tcStepFrame /\ UNCHANGED coVars /\ UNCHANGED webVars

SpecToolCall == InitToolCall /\ [][NextToolCall]_vars

-----------------------------------------------------------------------------
(* Text: a string is a tuple of characters; LF is the newline character *)

LF == "LF"
IsSpace(c) == c \in {" ", LF}
IsDigit(c) == c \in {"0", "1", "2", "3", "4", "5", "6", "7", "8", "9"}
DigitVal(c) ==
    CASE c = "0" -> 0 [] c = "1" -> 1 [] c = "2" -> 2 [] c = "3" -> 3
      [] c = "4" -> 4 [] c = "5" -> 5 [] c = "6" -> 6 [] c = "7" -> 7
      [] c = "8" -> 8 [] c = "9" -> 9

From(s, p) == SubSeq(s, p, Len(s))

RECURSIVE LStrip(_)
LStrip(s) == IF s # <<>> /\ IsSpace(Head(s)) THEN LStrip(Tail(s)) ELSE s
RECURSIVE RStrip(_)
RStrip(s) == IF s # <<>> /\ IsSpace(s[Len(s)])
             THEN RStrip(SubSeq(s, 1, Len(s) - 1)) ELSE s
\* str.strip()
Strip(s) == RStrip(LStrip(s))

StartsAt(s, p, pat) ==
    /\ p + Len(pat) - 1 <= Len(s)
    /\ SubSeq(s, p, p + Len(pat) - 1) = pat
\* "pat in s"
Contains(s, pat) == \E p \in 1..(Len(s) + 1) : StartsAt(s, p, pat)

\* index of the first LF of s at or after p (Len(s) + 1 if none)
RECURSIVE LineEnd(_, _)
LineEnd(s, p) == IF p > Len(s) \/ s[p] = LF THEN p ELSE LineEnd(s, p + 1)

\* file.readlines(): the lines of s, each with its LF if it has one
RECURSIVE ReadLines(_)
ReadLines(s) ==
    IF s = <<>> THEN <<>>
    ELSE LET e == LineEnd(s, 1) IN
         IF e > Len(s) THEN <<s>>
         ELSE <<SubSeq(s, 1, e)>> \o ReadLines(From(s, e + 1))

\* str.splitlines(): the lines of s without their LF
RECURSIVE SplitLines(_)
SplitLines(s) ==
    IF s = <<>> THEN <<>>
    ELSE LET e == LineEnd(s, 1) IN
         <<SubSeq(s, 1, e - 1)>> \o SplitLines(From(s, e + 1))

\* str.split('\n'): always at least one piece
RECURSIVE SplitLF(_)
SplitLF(s) ==
    LET e == LineEnd(s, 1) IN
    IF e > Len(s) THEN <<s>>
    ELSE <<SubSeq(s, 1, e - 1)>> \o SplitLF(From(s, e + 1))

\* ''.join(lines), as file.writelines does
RECURSIVE Concat(_)
Concat(lines) == IF lines = <<>> THEN <<>> ELSE Head(lines) \o Concat(Tail(lines))

\* '\n'.join(lines)
RECURSIVE JoinLF(_)
JoinLF(lines) ==
    IF lines = <<>> THEN <<>>
    ELSE IF Len(lines) = 1 THEN lines[1]
    ELSE lines[1] \o <<LF>> \o JoinLF(Tail(lines))

\* str.replace(old, new): every occurrence, left to right
RECURSIVE Replace(_, _, _)
Replace(s, old, new) ==
    IF s = <<>> THEN <<>>
    ELSE IF StartsAt(s, 1, old) THEN new \o Replace(From(s, Len(old) + 1), old, new)
    ELSE <<Head(s)>> \o Replace(Tail(s), old, new)

\* the leading digits of s
RECURSIVE Digits(_)
Digits(s) == IF s # <<>> /\ IsDigit(Head(s)) THEN <<Head(s)>> \o Digits(Tail(s))
             ELSE <<>>
\* int(digits)
RECURSIVE ToInt(_)
ToInt(d) == IF d = <<>> THEN 0
            ELSE 10 * ToInt(SubSeq(d, 1, Len(d) - 1)) + DigitVal(d[Len(d)])

Unchecked == <<"-", " ", "[", " ", "]">>
Checked   == <<"-", " ", "[", "x", "]">>
\* "- [m] "
Marker(m) == <<"-", " ", "[", m, "]", " ">>

\* the regular expression  - \[([ x])\]   matching s at position p
TaskHeadAt(s, p) ==
    /\ p + 5 <= Len(s)
    /\ \E m \in {" ", "x"} : SubSeq(s, p, p + 5) = Marker(m)

-----------------------------------------------------------------------------
(* CoordinatorAgent: the checklist document *)

\* re.finditer(r'- \[([ x])\] (.*)', content): the matches from position p on,
\* each with its mark and the rest of its line
RECURSIVE TaskMatches(_, _)
TaskMatches(s, p) ==
    IF p + 5 > Len(s) THEN <<>>
    ELSE IF TaskHeadAt(s, p)
    THEN LET e == LineEnd(s, p + 6) IN
         <<[mark |-> s[p + 3], text |-> SubSeq(s, p + 6, e - 1)]>>
            \o TaskMatches(s, e)
    ELSE TaskMatches(s, p + 1)

\* re.match(r'(?:Task\s+)?(\d+)[:.]?\s*(.*)', description)
TaskNumMatch(description) ==
    LET afterTask ==
            IF /\ StartsAt(description, 1, <<"T", "a", "s", "k">>)
               /\ Len(description) >= 5
               /\ IsSpace(description[5])
            THEN LStrip(From(description, 5)) ELSE <<>>
        body == IF afterTask # <<>> /\ IsDigit(Head(afterTask))
                THEN afterTask ELSE description
        digits == Digits(body)
        rest == From(body, Len(digits) + 1)
        rest2 == IF rest # <<>> /\ Head(rest) \in {":", "."} THEN Tail(rest) ELSE rest
    IN  [matched |-> digits # <<>>,
         number |-> ToInt(digits),
         description |-> Strip(rest2)]

\* list.sort(key=number), which is stable: insertion of t after its equals
RECURSIVE InsertByNumber(_, _)
InsertByNumber(sorted, t) ==
    IF sorted = <<>> THEN <<t>>
    ELSE IF Head(sorted).number <= t.number
    THEN <<Head(sorted)>> \o InsertByNumber(Tail(sorted), t)
    ELSE <<t>> \o sorted
RECURSIVE SortByNumber(_)
SortByNumber(ts) ==
    IF ts = <<>> THEN <<>>
    ELSE InsertByNumber(SortByNumber(SubSeq(ts, 1, Len(ts) - 1)), ts[Len(ts)])

\* {task["original"]: x for task in ts}: the entry of the LAST task with that key
LastWith(ts, original) ==
    ts[CHOOSE i \in 1..Len(ts) :
          /\ ts[i].original = original
          /\ \A j \in 1..Len(ts) : ts[j].original = original => j <= i]
HasOriginal(ts, original) == \E i \in 1..Len(ts) : ts[i].original = original

\* parse_tasks, lines 291 and 311-313: a task is completed when its line is
\* marked "x" or the task held before under the same text is completed
IsComplete(mark, previous, description) ==
    \/ mark = "x"
    \/ /\ HasOriginal(previous, description)
       /\ LastWith(previous, description).completed

\* parse_tasks, lines 283-323: the tasks found in todo_content, given the
\* tasks held before; sorted by number
RECURSIVE TasksFound(_, _, _)
TasksFound(matches, previous, found) ==
    IF matches = <<>> THEN found
    ELSE LET m == Head(matches)
             description == Strip(m.text)
             nm == TaskNumMatch(description)
             task_data ==
                [number |-> IF nm.matched THEN nm.number ELSE Len(found) + 1,
                 description |-> IF nm.matched THEN nm.description ELSE description,
                 completed |-> IsComplete(m.mark, previous, description),
                 original |-> description]
         IN  TasksFound(Tail(matches), previous, Append(found, task_data))

ParsedTasks(todo_content, previous) ==
    SortByNumber(TasksFound(TaskMatches(todo_content, 1), previous, <<>>))

\* update_todo_file, lines 356-383: one line of the file rewritten from the
\* completion map
UpdatedLine(line, ts) ==
    LET stripped == Strip(line) IN
    IF ~TaskHeadAt(stripped, 1) THEN line
    ELSE LET current_status == stripped[4]
             task_description == From(stripped, 7)
         IN  IF ~HasOriginal(ts, task_description) THEN line
             ELSE LET new_status ==
                          IF LastWith(ts, task_description).completed
                          THEN "x" ELSE " "
                  IN  IF current_status # new_status
                      THEN Marker(new_status) \o task_description \o <<LF>>
                      ELSE line

\* update_todo_file rewriting every task line, whether its mark changed or not
update_todo_file_mut(file, ts) ==
    IF file = Absent THEN file
    ELSE LET lines == ReadLines(file) IN
         Concat([i \in 1..Len(lines) |->
            IF TaskHeadAt(Strip(lines[i]), 1)
            THEN Strip(lines[i]) \o <<LF>> ELSE lines[i]])

\* update_todo_file: the file after the call (it is written only when some
\* line changed, and then as the concatenation of the lines)
update_todo_file(file, ts) ==
    IF file = Absent THEN file
    ELSE LET lines == ReadLines(file) IN
         Concat([i \in 1..Len(lines) |-> UpdatedLine(lines[i], ts)])

\* parse_tasks: the tasks and the file after the call (update_todo_file runs
\* when some task is completed)
ParseResult(ts, file) ==
    [tasks |-> ts,
     file |-> IF \E i \in 1..Len(ts) : ts[i].completed
              THEN update_todo_file(file, ts) ELSE file]
parse_tasks(todo_content, previous, file) ==
    ParseResult(ParsedTasks(todo_content, previous), file)

\* get_next_task choosing the last incomplete task
get_next_task_mut(ts) ==
    IF \A i \in 1..Len(ts) : ts[i].completed THEN 0
    ELSE CHOOSE i \in 1..Len(ts) :
            /\ ~ts[i].completed
            /\ \A j \in 1..Len(ts) : ~ts[j].completed => j <= i

\* get_next_task: the index of the first task not completed (0: none)
get_next_task(ts) ==
    IF \A i \in 1..Len(ts) : ts[i].completed THEN 0
    ELSE CHOOSE i \in 1..Len(ts) :
            /\ ~ts[i].completed
            /\ \A j \in 1..(i - 1) : ts[j].completed

-----------------------------------------------------------------------------
(* CoordinatorAgent: step() *)

\* what the language model may answer to the context prompt ("": nothing)
ContextAnswers == {<<>>, <<"generated context">>}

\* create_context_file: the content kept and written (lines 147-155)
ContextFrom(answer) == IF answer # <<>> THEN answer ELSE <<"default context">>

\* the default checklist of create_todo_file (lines 223, 252)
DefaultTaskLine ==
    Marker(" ") \o <<"T", "a", "s", "k", " ", "1", ":", " ", "d">>
HeaderBreakdown == <<"#", " ", "T", "B">>    \* "# Task Breakdown"
HeaderTasks     == <<"#", "#", " ", "T", "a", "s", "k", "s">>  \* "## Tasks"
DefaultTodo ==
    JoinLF(<<HeaderBreakdown, <<>>, HeaderTasks, DefaultTaskLine>>)

\* create_todo_file, lines 229-248: the lines of the answer that are kept
RECURSIVE FilterLines(_, _)
FilterLines(lines, in_tasks_section) ==
    IF lines = <<>> THEN <<>>
    ELSE LET line == Head(lines) IN
         IF Contains(line, HeaderBreakdown) \/ Contains(line, HeaderTasks)
         THEN <<line>> \o FilterLines(Tail(lines), TRUE)
         ELSE IF TaskHeadAt(line, 1) /\ in_tasks_section
         THEN <<line>> \o FilterLines(Tail(lines), in_tasks_section)
         ELSE IF Strip(line) = <<>> /\ in_tasks_section
         THEN <<line>> \o FilterLines(Tail(lines), in_tasks_section)
         ELSE IF line # <<>> /\ Head(line) = "#" /\ in_tasks_section
         THEN <<>>
         ELSE FilterLines(Tail(lines), in_tasks_section)

\* create_todo_file, lines 223-255: the content written to TODO.md
TodoFrom(answer) ==
    LET todo_content == IF answer # <<>> THEN answer ELSE DefaultTodo
        task_lines == FilterLines(SplitLF(todo_content), FALSE)
    IN  IF Len(task_lines) <= 2
        THEN JoinLF(<<HeaderBreakdown, <<>>, HeaderTasks, DefaultTaskLine>>)
        ELSE JoinLF(task_lines)

\* Checklist text the model may answer or an earlier run may have left on
\* disk: an optional "## Tasks" header, then up to MaxDocLines lines, with or
\* without a final newline.  The lines: tasks 1 and 2 in the prompted format,
\* unchecked or checked, an indented task line, an unnumbered task, the same
\* with two spaces after the mark, and a line of prose.
Desc1 == <<"T", "a", "s", "k", " ", "1", ":", " ", "a">>
Desc2 == <<"T", "a", "s", "k", " ", "2", ":", " ", "b">>
Desc3 == <<"a">>
BodyLines ==
    { Marker(" ") \o Desc1,
      Marker("x") \o Desc1,
      Marker(" ") \o Desc2,
      <<" ">> \o Marker(" ") \o Desc2,
      Marker(" ") \o Desc3,
      Marker(" ") \o <<" ">> \o Desc3,
      <<"n", "b">> }
Bodies == UNION {[1..n -> BodyLines] : n \in 0..MaxDocLines}
Docs ==
    {JoinLF(h \o body) \o t :
        h \in {<<>>, <<HeaderTasks>>}, body \in Bodies, t \in {<<>>, <<LF>>}}
TodoAnswers == Docs
\* the documents an earlier run may have left on disk: to the functions that
\* read TODO.md a header is one more line that is not a task, as the line of
\* prose is
DiskDocs == {JoinLF(body) \o t : body \in Bodies, t \in {<<>>, <<LF>>}}

\* the result string of execute_task_with_manus by the way the delegated run
\* ended (lines 503-531)
DelegateOutcomes == {"returned", "timeout", "raised"}
\* the generic handler taking the timeout as well
run_result_of_mut(outcome) ==
    CASE outcome = "returned" -> <<"result of Manus.run">>
      [] OTHER -> <<"Error", "al", "ejecutar", "la", "tarea">>
\* a result string is a tuple of words
run_result_of(outcome) ==
    CASE outcome = "returned" -> <<"result of Manus.run">>
      [] outcome = "timeout"  ->
            <<"Error:", "La", "tarea", "no", "pudo", "completarse", "dentro",
              "del", "tiempo", "limite", "(10", "minutos)">>
      [] outcome = "raised"   -> <<"Error", "al", "ejecutar", "la", "tarea">>

\* execute_task_with_manus rebuilding the flags from the task just executed
MarkCompleted_only(ts, i, outcome) ==
    [k \in 1..Len(ts) |-> [ts[k] EXCEPT !.completed = (k = i)]]
\* execute_task_with_manus marking only a delegated run that returned
MarkCompleted_mut(ts, i, outcome) ==
    IF outcome = "returned" THEN [ts EXCEPT ![i].completed = TRUE] ELSE ts
\* execute_task_with_manus, line 537: task["completed"] = True, however the
\* delegated run ended
MarkCompleted(ts, i, outcome) == [ts EXCEPT ![i].completed = TRUE]

\* the text appended by the final step (lines 727-735)
RECURSIVE SummaryItems(_, _)
SummaryItems(items, ts) ==
    IF items = <<>> THEN <<>>
    ELSE <<"*", " ">> \o ts[Head(items)].description \o <<LF>>
            \o SummaryItems(Tail(items), ts)
ExecutionSummary(items, ts) ==
    <<LF, LF, "#", "#", " ", "E", "S", LF, "#", " ", "T", "E", "S", LF, LF>>
        \o SummaryItems(items, ts)

\* create_todo_file generating the context whatever it holds
LacksContext_mut(content) == TRUE
\* create_todo_file, line 170: not self.context_content
LacksContext(content) == content = <<>>

\* step(), line 649: no Context.md and no context in memory
NeedsContext == context_file = Absent /\ context_content = <<>>

\* the load forgetting the marks it read: every task starts incomplete
LoadResult_mut(p) ==
    [did |-> TRUE,
     tasks |-> [i \in 1..Len(p.tasks) |-> [p.tasks[i] EXCEPT !.completed = FALSE]],
     file |-> update_todo_file(p.file, p.tasks)]
\* step(), lines 670-683: an existing TODO.md is loaded when no task is held
LoadResult(p) ==
    [did |-> TRUE, tasks |-> p.tasks, file |-> update_todo_file(p.file, p.tasks)]
\* the step not looking for a checklist on disk
Loaded_mut == [did |-> FALSE, tasks |-> tasks, file |-> todo_file]
Loaded ==
    IF tasks = <<>> /\ todo_file # Absent
    THEN LoadResult(parse_tasks(todo_file, tasks, todo_file))
    ELSE [did |-> FALSE, tasks |-> tasks, file |-> todo_file]

\* the document before and after a load, kept for the step that loaded it,
\* and the tasks the load read, kept for the run
LoadHistory(L) ==
    /\ loaded_doc' = IF L.did THEN <<todo_file, L.file>> ELSE <<>>
    /\ read_tasks' = IF L.did THEN L.tasks ELSE read_tasks
LoadPhase(L) == IF L.did THEN <<"load">> ELSE <<>>

\* CoordinatorAgent.run: the coordinator's own reset, then BaseAgent.run
CoordRun ==
    /\ RunEnter("req")
    /\ tasks' = <<>>
    /\ summary' = <<>>
    /\ context_content' = <<>>
    /\ delegated' = <<>>
    /\ ctx_writes' = 0
    /\ phases' = <<>>
    /\ loaded_doc' = <<>>
    /\ read_tasks' = <<>>
    /\ UNCHANGED <<todo_file, context_file, next_task, run_result, delegate_end, todo_before,
                   attempt, update_successful, original_request>>

\* step(), lines 648-667: the Context Document is generated
CoordContext ==
    /\ pc = "step"
    /\ NeedsContext
    /\ \E answer \in ContextAnswers :
          /\ context_content' = ContextFrom(answer)
          /\ context_file' = ContextFrom(answer)
    /\ original_request' = "req"
    /\ ctx_writes' = ctx_writes + 1
    /\ phases' = <<"context">>
    /\ pc' = "check_stuck"
    /\ UNCHANGED <<state, finish_seen, tasks, todo_file, summary, next_task,
                   delegated, run_result, delegate_end, todo_before, attempt,
                   update_successful, loaded_doc, read_tasks>>

\* step(), lines 692-711, with create_todo_file: no task after loading, the
\* checklist is generated (and the context first, when none is in memory)
PlanResult(written, previous) == parse_tasks(written, previous, written)
Planned(p) == tasks' = p.tasks /\ todo_file' = p.file
CoordPlanOn(L) ==
    /\ pc = "step"
    /\ ~NeedsContext
    /\ L.tasks = <<>>
    /\ IF LacksContext(context_content)
       THEN /\ \E answer \in ContextAnswers :
                  /\ context_content' = ContextFrom(answer)
                  /\ context_file' = ContextFrom(answer)
            /\ original_request' = "req"
            /\ ctx_writes' = ctx_writes + 1
            /\ phases' = LoadPhase(L) \o <<"context", "generate">>
       ELSE /\ UNCHANGED <<context_content, context_file, original_request,
                           ctx_writes>>
            /\ phases' = LoadPhase(L) \o <<"generate">>
    /\ \E answer \in TodoAnswers :
          Planned(PlanResult(TodoFrom(answer), L.tasks))
    /\ LoadHistory(L)
    /\ pc' = "check_stuck"
    /\ UNCHANGED <<state, finish_seen, summary, next_task, delegated, run_result, delegate_end,
                   todo_before, attempt, update_successful>>
CoordPlan == CoordPlanOn(Loaded)

\* the final step leaving the state as it is
StateAfterFinalize_mut(s) == s
\* step(), line 719: self.state = AgentState.FINISHED
StateAfterFinalize(s) == "FINISHED"

\* step(), lines 713-743: no incomplete task is left
CoordFinalizeOn(L) ==
    /\ pc = "step"
    /\ ~NeedsContext
    /\ L.tasks # <<>>
    /\ get_next_task(L.tasks) = 0
    /\ state' = StateAfterFinalize(state)
    /\ finish_seen' = (finish_seen \/ StateAfterFinalize(state) = "FINISHED")
    /\ tasks' = L.tasks
    /\ todo_file' = (IF L.file = Absent THEN <<>> ELSE L.file)
                        \o ExecutionSummary(summary, L.tasks)
    /\ LoadHistory(L)
    /\ phases' = LoadPhase(L) \o <<"finalize">>
    /\ pc' = "check_stuck"
    /\ UNCHANGED <<context_file, context_content, summary, next_task, delegated,
                   run_result, delegate_end, todo_before, attempt, update_successful,
                   original_request, ctx_writes>>
CoordFinalize == CoordFinalizeOn(Loaded)

\* step(), lines 745-755, and execute_task_with_manus up to the delegated run
\* (lines 417-508): a fresh Manus is given the next task
CoordDelegateOn(L) ==
    /\ pc = "step"
    /\ ~NeedsContext
    /\ L.tasks # <<>>
    /\ get_next_task(L.tasks) # 0
    /\ tasks' = L.tasks
    /\ todo_file' = L.file
    /\ next_task' = get_next_task(L.tasks)
    /\ delegated' = Append(delegated, get_next_task(L.tasks))
    /\ context_content' = IF context_content = <<>> /\ context_file # Absent
                          THEN context_file ELSE context_content
    /\ LoadHistory(L)
    /\ phases' = LoadPhase(L) \o <<"execute">>
    /\ pc' = "delegate"
    /\ UNCHANGED <<state, finish_seen, context_file, summary, run_result, delegate_end,
                   todo_before, attempt, update_successful, original_request,
                   ctx_writes>>
CoordDelegate == CoordDelegateOn(Loaded)

\* execute_task_with_manus, lines 503-552: the delegated run returns, times out
\* or raises; the task is marked completed in memory
DelegateEnds ==
    /\ pc = "delegate"
    /\ \E outcome \in DelegateOutcomes :
          /\ delegate_end' = outcome
          /\ run_result' = run_result_of(outcome)
          /\ tasks' = MarkCompleted(tasks, next_task, outcome)
    /\ todo_before' = IF todo_file = Absent THEN <<>> ELSE todo_file
    /\ attempt' = 0
    /\ update_successful' = FALSE
    /\ pc' = "persist"
    /\ UNCHANGED <<state, finish_seen, todo_file, context_file, context_content,
                   summary, next_task, delegated, original_request, ctx_writes,
                   phases, loaded_doc, read_tasks>>

\* "- [x] {task_original}" in content
ShowsCompleted(file, task) ==
    file # Absent /\ Contains(file, Checked \o <<" ">> \o task.original)

\* execute_task_with_manus, lines 554-575: one attempt of the retry loop
Attempted(file) ==
    /\ todo_file' = file
    /\ update_successful' = ShowsCompleted(file, tasks[next_task])
PersistAttempt ==
    /\ pc = "persist"
    /\ ~update_successful
    /\ attempt < max_retries
    /\ Attempted(update_todo_file(todo_file, tasks))
    /\ attempt' = attempt + 1
    /\ UNCHANGED <<state, finish_seen, pc, tasks, context_file, context_content,
                   summary, next_task, delegated, run_result, delegate_end, todo_before,
                   original_request, ctx_writes, phases, loaded_doc, read_tasks>>

\* execute_task_with_manus, lines 577-611: the line-level substitution, made
\* on the content read BEFORE the attempts; the file is written only when a
\* line was found
ManualUpdate(file, before, task) ==
    LET lines == SplitLines(before)
        hit(line) == Contains(line, task.original) /\ Contains(line, Unchecked)
        updated_lines == [i \in 1..Len(lines) |->
            IF hit(lines[i]) THEN Replace(lines[i], Unchecked, Checked)
            ELSE lines[i]]
    IN  IF \E i \in 1..Len(lines) : hit(lines[i])
        THEN JoinLF(updated_lines) ELSE file

\* step(), lines 757-768: a last update_todo_file when the marker is not shown
FinalCheck(file, ts, task) ==
    IF file # Absent /\ ~ShowsCompleted(file, task)
    THEN update_todo_file(file, ts) ELSE file

\* execute_task_with_manus, lines 577-642: the retry loop is over, and the file
\* the function leaves; then the rest of step() (757-784)
ExecuteReturns == pc = "persist" /\ (update_successful \/ attempt >= max_retries)
FileAtReturn ==
    IF update_successful THEN todo_file
    ELSE ManualUpdate(todo_file, todo_before, tasks[next_task])
PersistEnd ==
    /\ ExecuteReturns
    /\ todo_file' = FinalCheck(FileAtReturn, tasks, tasks[next_task])
    /\ summary' = Append(summary, next_task)
    /\ pc' = "check_stuck"
    /\ UNCHANGED <<state, finish_seen, tasks, context_file, context_content,
                   next_task, delegated, run_result, delegate_end, todo_before, attempt,
                   update_successful, original_request, ctx_writes, phases,
                   loaded_doc, read_tasks>>

\* steps a run needs at most: context, checklist, one per task, the final step
EnoughSteps == MaxDocLines + 3

\* A CoordinatorAgent before run(request): the workspace may hold the
\* Context.md and TODO.md of an earlier run.
InitCoord ==
    /\ max_steps \in {2, EnoughSteps}
    /\ todo_file \in DiskDocs \cup {Absent}
    /\ context_file \in {Absent, <<"old context">>}
    /\ current_step = 0
    /\ state = "IDLE"
    /\ entry_state = "none"
    /\ sandbox = "none"
    /\ previous_state = "IDLE"
    /\ messages = <<>>
    /\ stuck_prompts = 0
    /\ pc = "ready"
    /\ final_result = "none"
    /\ exc = "none"
    /\ step_calls = 0
    /\ stuck_seen = FALSE
    /\ finish_seen = FALSE
    /\ step_exc = NoExc
    /\ tool_choices = "auto"
    /\ tcIdle
    /\ tasks = <<>>
    /\ context_content = <<>>
    /\ summary = <<>>
    /\ next_task = 0
    /\ delegated = <<>>
    /\ run_result = <<>>
    /\ delegate_end = "none"
    /\ todo_before = <<>>
    /\ attempt = 0
    /\ update_successful = FALSE
    /\ original_request = ""
    /\ ctx_writes = 0
    /\ phases = <<>>
    /\ loaded_doc = <<>>
    /\ read_tasks = <<>>
    /\ webIdle

coStepFrame == UNCHANGED <<previous_state, entry_state, sandbox, current_step, max_steps, messages,
                           stuck_prompts, final_result, exc, step_calls,
                           stuck_seen>>

NextCoord ==
    \/ CoordRun /\ UNCHANGED tcVars /\ UNCHANGED webVars
    \/ LoopEnterStep /\ UNCHANGED <<tcVars, coVars>> /\ UNCHANGED webVars
    \/ LoopExit /\ UNCHANGED <<tcVars, coVars>> /\ UNCHANGED webVars
    \/ CheckStuck /\ UNCHANGED <<tcVars, coVars>> /\ UNCHANGED webVars
    \/ CoordContext /\ coStepFrame /\ UNCHANGED tcVars /\ UNCHANGED webVars
    \/ CoordPlan /\ coStepFrame /\ UNCHANGED tcVars /\ UNCHANGED webVars
    \/ CoordFinalize /\ coStepFrame /\ UNCHANGED tcVars /\ UNCHANGED webVars
    \/ CoordDelegate /\ coStepFrame /\ UNCHANGED tcVars /\ UNCHANGED webVars
    \/ DelegateEnds /\ coStepFrame /\ UNCHANGED tcVars /\ UNCHANGED webVars
    \/ PersistAttempt /\ coStepFrame /\ UNCHANGED tcVars /\ UNCHANGED webVars
    \/ PersistEnd /\ coStepFrame /\ UNCHANGED tcVars /\ UNCHANGED webVars

SpecCoord == InitCoord /\ [][NextCoord]_vars

-----------------------------------------------------------------------------
(* Claims checked under SpecLoop *)

\* the assistant messages of a conversation, in order
AssistantMessages(msgs) == SelectSeq(msgs, LAMBDA m : m.role = "assistant")

\* the last k assistant messages of msgs carry the same non-empty content
LastIdentical(msgs, k) ==
    LET a == AssistantMessages(msgs) IN
    /\ Len(a) >= k
    /\ a[Len(a)].content # ""
    /\ \A i \in (Len(a) - k + 1)..Len(a) : a[i].content = a[Len(a)].content

\* C2 as stated: whenever the last two (or more) assistant messages of the
\* conversation are identical and non-empty, is_stuck() is true.
C2_TwoIdenticalStuck ==
    LastIdentical(messages, 2) => is_stuck(messages)

\* C2 amended: with duplicate_threshold = 2, is_stuck() is true whenever the
\* most recent message is an assistant message and the last three (or more)
\* assistant messages are identical and non-empty; a conversation with only
\* two assistant messages holding that content is not stuck.
C2_ThreeIdenticalStuck ==
    /\ (/\ messages # <<>>
        /\ messages[Len(messages)].role = "assistant"
        /\ LastIdentical(messages, duplicate_threshold + 1))
       => is_stuck(messages)
    /\ (/\ LastIdentical(messages, 2)
        /\ messages[Len(messages)].role = "assistant"
        /\ Cardinality({i \in 1..Len(messages) :
              /\ messages[i].role = "assistant"
              /\ messages[i].content = messages[Len(messages)].content}) = 2)
       => ~is_stuck(messages)

\* C2 witness: run() found the agent stuck on three identical assistant messages
C2_Witness ==
    /\ pc = "loop"
    /\ stuck_seen
    /\ messages[Len(messages)].role = "assistant"
    /\ LastIdentical(messages, 3)

\* C3: when run() has returned and no step of it set the state to Finished
\* (none raised either, or run() would not have returned), step() was invoked
\* exactly max_steps times and the result is the max-steps result, not an error.
C3_ExactlyMaxSteps ==
    (pc = "returned" /\ ~finish_seen)
        => /\ step_calls = max_steps
           /\ final_result = "max_steps"
           /\ exc = "none"

\* C3 witness: a run with max_steps = 3 that ended by max-steps termination
C3_Witness ==
    /\ pc = "returned"
    /\ ~finish_seen
    /\ max_steps = 3
    /\ step_calls = 3
    /\ final_result = "max_steps"

\* C4 as stated: on return after max-steps termination the step counter is 0
\* and the state is Idle.
C4_CounterResetOnReturn ==
    (pc = "returned" /\ final_result = "max_steps")
        => (current_step = 0 /\ state = "IDLE")

\* C4 amended: on return after max-steps termination the state is Idle and the
\* step counter still holds max_steps; the counter is reset to 0 only when the
\* next run() starts (it is 0 whenever the loop is entered with no step made).
C4_CounterKeptOnReturn ==
    /\ (pc = "returned" /\ final_result = "max_steps")
          => (current_step = max_steps /\ state = "IDLE")
    /\ (pc = "loop" /\ step_calls = 0) => current_step = 0

\* C4 witness: a max-steps termination has returned
C4_Witness ==
    /\ pc = "returned"
    /\ final_result = "max_steps"
    /\ current_step = max_steps
    /\ state = "IDLE"

\* C14: whenever run() has returned or raised, the agent's state is Idle or
\* Finished, never Error or Running, whatever the exit path.
C14_ExitStateIdleOrFinished ==
    pc \in {"returned", "raised"} => state \in {"IDLE", "FINISHED"}

\* C14 witness: run() has raised out of a failing step, the state was ERROR in
\* between and is IDLE again
C14_Witness ==
    /\ pc = "raised"
    /\ exc # "none"
    /\ step_calls >= 1
    /\ state = "IDLE"

\* C15: run() called in any agent state never fails with an invalid-state
\* error: it enters the step loop with the state reset to Idle (saved by
\* state_context, which then sets Running) and current_step 0.
C15_RunResetsAnyState ==
    /\ exc # "InvalidStateError"
    /\ pc # "ready" => entry_state \in AgentStates
    /\ (pc = "loop" /\ step_calls = 0)
          => /\ state = "RUNNING"
             /\ previous_state = "IDLE"
             /\ current_step = 0
             /\ exc = "none"

\* C15 witness: run() was called on an agent in state ERROR whose counter held
\* max_steps, and the first step is under way
C15_Witness ==
    /\ entry_state = "ERROR"
    /\ pc = "step"
    /\ current_step = 1
    /\ step_calls = 1
    /\ state = "RUNNING"

\* C16: on every exit path of run() the sandbox session is released before
\* run() hands control back: once run() has returned or raised, no session is
\* held.
C16_SandboxReleasedOnExit ==
    pc \in {"returned", "raised"} => sandbox # "held"

\* C17: when step() raised an exception whose cause is a token-budget
\* failure, run() returns an error summary without raising; when step() raised
\* any other exception, run() raises that exception.
C17_TokenLimitReturnsOthersPropagate ==
    (pc \in {"returned", "raised"} /\ step_exc # NoExc) =>
        IF step_exc.cause = "TokenLimitExceeded"
        THEN pc = "returned" /\ exc = "none" /\ final_result = "token_limit"
        ELSE pc = "raised" /\ exc = step_exc.type

\* C27: is_stuck() is true only if the most recent message of the conversation
\* is non-empty and authored by the assistant; a conversation holding a single
\* assistant message, not repeated, is not stuck.
C27_StuckOnlyOnAssistantMessage ==
    /\ is_stuck(messages)
         => /\ messages[Len(messages)].content # ""
            /\ messages[Len(messages)].role = "assistant"
    /\ Cardinality({i \in 1..Len(messages) : messages[i].role = "assistant"}) = 1
         => ~is_stuck(messages)

-----------------------------------------------------------------------------
(* Claims checked under SpecToolCall *)

\* the invocations declared in msgs, as <<message index, position in its list>>
Declarations(msgs) ==
    UNION {{<<j, k>> : k \in 1..Len(msgs[j].tool_calls)} :
              j \in {i \in 1..Len(msgs) : msgs[i].role = "assistant"}}

ToolMessageIdx(msgs) == {i \in 1..Len(msgs) : msgs[i].role = "tool"}

\* every tool message answers exactly one invocation declared by an earlier
\* assistant message, and every declared invocation has exactly one answer
Correlated(msgs) ==
    /\ \A i \in ToolMessageIdx(msgs) :
          Cardinality({d \in Declarations(msgs) :
              /\ d[1] < i
              /\ msgs[d[1]].tool_calls[d[2]].id = msgs[i].tool_call_id}) = 1
    /\ \A d \in Declarations(msgs) :
          Cardinality({i \in ToolMessageIdx(msgs) :
              msgs[i].tool_call_id = msgs[d[1]].tool_calls[d[2]].id}) = 1

\* C1: the conversation think() hands to the language model, after
\* _clean_orphaned_tool_calls, is correlated: every tool message matches exactly
\* one invocation of a preceding assistant message and every invocation still
\* declared has exactly one tool message.
C1_SentConversationCorrelated == Correlated(sent)

\* C5: in Required mode, when the model answers with zero tool invocations,
\* think() appends the assistant message and returns true without failing, and
\* the ToolCallRequired failure comes from the act() that follows.
C5_RequiredFailsInAct ==
    (/\ tool_choices = "required"
     /\ response.kind = "answer"
     /\ response.tool_calls = NoCalls)
    => /\ think_ret = TRUE
       /\ pc \in {"act", "step_raised", "raised"}
       /\ pc = "act" =>
             /\ step_exc = NoExc
             /\ messages[Len(messages)] = assistant_message(response.content)
       /\ pc \in {"step_raised", "raised"} =>
             step_exc = [type |-> "ValueError", cause |-> TOOL_CALL_REQUIRED,
                         from |-> "act"]

\* C5 witness: act() has raised ToolCallRequired after think() returned true
C5_Witness ==
    /\ tool_choices = "required"
    /\ response.kind = "answer"
    /\ response.tool_calls = NoCalls
    /\ think_ret = TRUE
    /\ pc = "step_raised"
    /\ step_exc.from = "act"

\* C18: when the language-model call of think() failed with a token-budget
\* failure as its cause, think() appended exactly one assistant message
\* describing the failure to the conversation it had sent, set the state to
\* Finished and returned false; no act() follows and the run loop makes no
\* further step.
C18_TokenLimitFinishes ==
    response.kind = "TokenLimit" =>
        /\ think_ret = FALSE
        /\ messages = Append(sent, assistant_message("Maximum token limit reached"))
        /\ finish_seen
        /\ pc \in {"check_stuck", "loop", "returned"}
        /\ pc \in {"check_stuck", "loop"} => state = "FINISHED"
        /\ pc = "returned" => (final_result = "completed" /\ exc = "none")

\* C18 witness: the first think() of a run allowed two steps hit the token
\* limit, and run() has returned after that single step
C18_Witness ==
    /\ response.kind = "TokenLimit"
    /\ pc = "returned"
    /\ max_steps = 2
    /\ step_calls = 1
    /\ messages[Len(messages)].role = "assistant"

\* the last k messages of msgs are the tool messages of the first k
\* invocations of calls, in order, each an observation execute_tool can return
\* for the invocation's tool
AnsweredInOrder(msgs, calls, k) ==
    /\ k <= Len(msgs)
    /\ \A i \in 1..k :
          LET m == msgs[Len(msgs) - k + i] IN
          /\ m.role = "tool"
          /\ m.tool_call_id = calls[i].id
          /\ \E o \in ToolOutcomes(calls[i].name) : m.content = Observation(o)
          /\ calls[i].name \notin KnownTools => m.content \in ErrorObservations

\* C19: for the n >= 1 invocations think() recorded, act() appends exactly n
\* tool messages, in emission order, the i-th carrying the i-th invocation's
\* id, also when invocations fail (unknown tool, malformed arguments, handler
\* exception); a failed invocation's observation begins with "Error:", and
\* act() does not raise.
C19_OneToolMessagePerInvocation ==
    /\ \A name \in ToolNames : \A o \in ToolOutcomes(name) :
          o # "ok" => Observation(o) \in ErrorObservations
    /\ pc = "act_loop" =>
          /\ AnsweredInOrder(messages, tool_calls, act_i - 1)
          /\ Len(messages) = Len(sent) + 1 + (act_i - 1)
          /\ step_exc = NoExc
    /\ (pc = "check_stuck" /\ think_ret = TRUE /\ tool_calls # NoCalls) =>
          /\ AnsweredInOrder(messages, tool_calls, Len(tool_calls))
          /\ Len(messages) = Len(sent) + 1 + Len(tool_calls)
          /\ step_exc = NoExc

\* C19 witness: act() has ended after two invocations, the first of an unknown
\* tool, the second of a known tool whose handler raised
C19_Witness ==
    /\ pc = "check_stuck"
    /\ think_ret = TRUE
    /\ Len(tool_calls) = 2
    /\ tool_calls[1].name = "bogus"
    /\ tool_calls[2].name = "python_execute"
    /\ messages[Len(messages) - 1].content = "Error: Unknown tool"
    /\ messages[Len(messages)].content = "Error: Tool encountered a problem"
    /\ messages[Len(messages)].tool_call_id = tool_calls[2].id

\* among the first k invocations of the current act(), a special tool
\* completed: its tool message holds the observed output
SpecialCompleted(msgs, calls, k) ==
    \E i \in 1..k :
        /\ calls[i].name \in SpecialTools
        /\ msgs[Len(msgs) - k + i].content = Observation("ok")

\* C20: when a special tool completed during act(), the state is Finished and
\* run() makes no further step; invocations of a special tool that failed
\* (handler exception, malformed arguments) leave the state as it was.
C20_SpecialToolFinishes ==
    /\ pc = "act_loop" =>
          state = IF SpecialCompleted(messages, tool_calls, act_i - 1)
                  THEN "FINISHED" ELSE "RUNNING"
    /\ (pc = "check_stuck" /\ think_ret = TRUE /\ tool_calls # NoCalls) =>
          state = IF SpecialCompleted(messages, tool_calls, Len(tool_calls))
                  THEN "FINISHED" ELSE "RUNNING"
    /\ finish_seen =>
          /\ pc \in {"act_loop", "check_stuck", "loop", "returned"}
          /\ pc = "returned" => final_result = "completed"

\* C20 witness: in the first step of a run allowed two, terminate failed on
\* its arguments and then completed; run() has returned after that step
C20_Witness ==
    /\ pc = "returned"
    /\ max_steps = 2
    /\ step_calls = 1
    /\ Len(tool_calls) = 2
    /\ tool_calls[1].name = "terminate"
    /\ tool_calls[2].name = "terminate"
    /\ messages[Len(messages) - 1].content = "Error: Error parsing arguments"
    /\ messages[Len(messages)].content = "Observed output of cmd"
    /\ finish_seen

\* what C28 states think() to return for an answer of the model
ActWarranted(mode, content, calls) ==
    \/ calls # NoCalls
    \/ (mode = "auto" /\ content # "")
    \/ mode = "required"

\* C28 as stated: when the model answers, think() returns true exactly when
\* tool invocations were emitted, or the mode is Auto and the text is not
\* empty, or the mode is Required; in every mode, None included.
C28_ThinkReturnAllModes ==
    response.kind = "answer"
        => think_ret = ActWarranted(tool_choices, response.content, response.tool_calls)

\* C28 amended: in the modes Auto and Required think() returns true exactly
\* when tool invocations were emitted, or the mode is Auto and the text is not
\* empty, or the mode is Required; in the mode None it returns true exactly
\* when the text is not empty, whether or not invocations were emitted.
C28_ThinkReturnByMode ==
    response.kind = "answer"
        => think_ret = IF tool_choices = "none" THEN response.content # ""
                       ELSE ActWarranted(tool_choices, response.content,
                                         response.tool_calls)

\* C28 witness: in the mode None the model emitted invocations and no text,
\* and think() returned false
C28_Witness ==
    /\ tool_choices = "none"
    /\ response.kind = "answer"
    /\ response.tool_calls # NoCalls
    /\ response.content = ""
    /\ think_ret = FALSE
    /\ pc = "check_stuck"

\* C34: in the mode None no tool is executed and no tool message is appended,
\* even when the answer of the model carries invocations: the conversation
\* holds the request, the steering prompts and text-only assistant messages.
C34_NoneModeRunsNoTool ==
    tool_choices = "none" =>
        /\ pc # "act_loop"
        /\ \A i \in 1..Len(messages) :
              /\ messages[i].role # "tool"
              /\ messages[i].tool_calls = NoCalls

------------------------------------------------------------------------\* C39: when a special tool completes in the middle of the invocation list of
\* one act(), the invocations after it are still executed and answered with
\* their tool messages before the step returns; the Finished state stops only
\* the next step of run().
C39_FinishedStopsNextStepOnly ==
    /\ [][(pc = "act_loop" /\ state = "FINISHED" /\ act_i <= Len(tool_calls)) =>
            /\ pc' = "act_loop"
            /\ act_i' = act_i + 1
            /\ Len(messages') = Len(messages) + 1
            /\ messages'[Len(messages')].role = "tool"
            /\ messages'[Len(messages')].tool_call_id = tool_calls[act_i].id]_vars
    /\ [][(pc = "loop" /\ state = "FINISHED") => pc' # "step"]_vars

\* C39 witness: act() has returned from a list of two invocations whose first
\* was a terminate that completed; both are answered, in order, and the state
\* is Finished
C39_Witness ==
    /\ pc = "check_stuck"
    /\ state = "FINISHED"
    /\ Len(tool_calls) = 2
    /\ tool_calls[1].name = "terminate"
    /\ tool_calls[2].name = "python_execute"
    /\ Len(messages) >= 2
    /\ messages[Len(messages) - 1] =
          tool_message(Observation("ok"), tool_calls[1].id)
    /\ messages[Len(messages)].role = "tool"
    /\ messages[Len(messages)].tool_call_id = tool_calls[2].id

-----
(* Claims checked under SpecCoord *)

\* the step that has just ended delegated a task
ExecuteStepDone ==
    pc = "check_stuck" /\ phases # <<>> /\ phases[Len(phases)] = "execute"

\* C6: get_next_task() on the task list held returns a task that is not
\* completed and whose number is the lowest among the tasks not completed, and
\* it returns none exactly when every task is completed; the task a step
\* delegates is that one.
C6_NextIsLowestIncomplete ==
    /\ get_next_task(tasks) = 0 <=> \A i \in 1..Len(tasks) : tasks[i].completed
    /\ get_next_task(tasks) # 0 =>
          /\ ~tasks[get_next_task(tasks)].completed
          /\ \A j \in 1..Len(tasks) :
                ~tasks[j].completed =>
                    tasks[get_next_task(tasks)].number <= tasks[j].number
    /\ pc = "delegate" =>
          \A j \in 1..Len(tasks) :
                ~tasks[j].completed => tasks[next_task].number <= tasks[j].number

\* C6 witness: the second task of a list is delegated, the first being
\* completed
C6_Witness ==
    /\ pc = "delegate"
    /\ Len(tasks) = 2
    /\ tasks[1].completed
    /\ next_task = 2
    /\ tasks[1].number < tasks[2].number

\* C7: a step that loads the checklist document (parse_tasks, then
\* update_todo_file, no task executed in between) leaves it byte-identical.
C7_LoadLeavesDocument ==
    loaded_doc # <<>> => loaded_doc[2] = loaded_doc[1]

\* line holds the checklist entry of task t, with the mark m
EntryOf(line, t, m) ==
    /\ TaskMatches(line, 1) # <<>>
    /\ Strip(TaskMatches(line, 1)[1].text) = t.original
    /\ TaskMatches(line, 1)[1].mark = m

\* from the lines b to the lines a, one unchecked entry of t became checked and
\* no other line changed
MarkedOnly(b, a, t) ==
    /\ Len(a) = Len(b)
    /\ \E i \in 1..Len(b) :
          /\ EntryOf(b[i], t, " ")
          /\ EntryOf(a[i], t, "x")
          /\ \A j \in 1..Len(b) : j # i => a[j] = b[j]

\* C8: after a step has executed the lowest-numbered incomplete task T, the
\* document read again shows T's line marked "- [x]" and every other line as
\* it was before the task was marked.
C8_OnlyExecutedLineMarked ==
    ExecuteStepDone =>
        MarkedOnly(SplitLines(todo_before), SplitLines(todo_file), tasks[next_task])

\* the words that tell a timeout in a result string
TimeoutIndicator == <<"tiempo", "limite">>

\* C9: when the delegated run timed out, execute_task_with_manus goes on
\* without raising: the task is marked completed, the result string holds the
\* timeout indicator, and the step ends normally.
C9_TimeoutIsNotFatal ==
    (delegate_end = "timeout" /\ (pc = "persist" \/ ExecuteStepDone))
        => /\ tasks[next_task].completed
           /\ Contains(run_result, TimeoutIndicator)
           /\ exc = "none"
           /\ step_exc = NoExc

\* C9 witness: a step whose delegated run timed out has ended
C9_Witness ==
    /\ ExecuteStepDone
    /\ delegate_end = "timeout"
    /\ tasks[next_task].completed
    /\ summary # <<>>
    /\ summary[Len(summary)] = next_task

\* no task index occurs twice in the sequence d
NoRepeat(d) == \A i, j \in 1..Len(d) : d[i] = d[j] => i = j

\* a step that starts after a delegated run timed out or raised, with a task
\* still incomplete, delegates that task
FailureDoesNotBlock ==
    (/\ pc = "step"
     /\ delegate_end \in {"timeout", "raised"}
     /\ get_next_task(tasks) # 0)
    => /\ pc' = "delegate"
       /\ next_task' = get_next_task(tasks)
       /\ delegated' = Append(delegated, next_task')
       /\ NoRepeat(delegated')

\* C10: within one run no task is delegated twice, and the step that follows
\* a delegated run that timed out or raised delegates the next incomplete
\* task; such a run never raises out of the step.
C10_OncePerTaskAndNeverBlocked ==
    /\ [](NoRepeat(delegated))
    /\ []((delegate_end \in {"timeout", "raised"} /\ pc = "persist")
              => (exc = "none" /\ step_exc = NoExc))
    /\ [][FailureDoesNotBlock]_vars

\* C10 witness: after a delegated run that raised, the next task is delegated
C10_Witness ==
    /\ pc = "delegate"
    /\ Len(delegated) = 2
    /\ delegated[1] # delegated[2]
    /\ delegate_end = "raised"

\* the sequence numbers of the tasks delegated so far, in the order of delegation
DelegatedNumbers == [k \in 1..Len(delegated) |-> tasks[delegated[k]].number]

\* C11: in a Coordinator run the sequence numbers of the tasks delegated, in
\* the order they are delegated, are strictly increasing.
C11_DelegatedNumbersAscend ==
    \A i, j \in 1..Len(delegated) :
        i < j => DelegatedNumbers[i] < DelegatedNumbers[j]

\* the document read again from scratch gives, task by task, the completed
\* flags held in memory: line and task correspond as parse_tasks pairs them
MarksAgree(read, ts) ==
    \A i \in 1..Len(ts) :
        (i <= Len(read) /\ read[i].original = ts[i].original)
            => read[i].completed = ts[i].completed

\* C12: when execute_task_with_manus returns and the checklist document
\* exists, the mark of every task line on disk equals the completed flag held
\* in memory for the task of that line.
C12_DiskMarksEqualFlags ==
    (ExecuteReturns /\ todo_file # Absent)
        => MarksAgree(ParsedTasks(FileAtReturn, <<>>), tasks)

\* the run resumed from a checklist document holding tasks: the tasks in memory
\* are those read from that document, one for one
Resumed(read) ==
    /\ Len(read) = Len(tasks)
    /\ \A i \in 1..Len(read) :
          /\ read[i].original = tasks[i].original
          /\ read[i].number = tasks[i].number

\* no task marked "- [x]" in the document read is delegated, and the first
\* task delegated has the lowest number among those marked "- [ ]"
ResumesAfterMarks(read) ==
    /\ \A k \in 1..Len(delegated) : ~read[delegated[k]].completed
    /\ delegated # <<>> =>
          \A j \in 1..Len(read) :
              ~read[j].completed => read[delegated[1]].number <= read[j].number

ResumeHolds(read) ==
    read # <<>> => (Resumed(read) /\ ResumesAfterMarks(read))

\* C13: when a run starts with an existing checklist document that holds
\* tasks, the tasks in memory are those of the document with the marks it had
\* on disk, the tasks marked "- [x]" on disk are never delegated, and the
\* first task delegated is the lowest-numbered task marked "- [ ]".
C13_ResumeSkipsMarked ==
    /\ loaded_doc # <<>> => read_tasks = ParsedTasks(loaded_doc[1], <<>>)
    /\ ResumeHolds(read_tasks)

\* C13 witness: the document on disk held task 1 marked "- [x]" and task 2
\* marked "- [ ]"; task 2 is the first task delegated
C13_Witness ==
    /\ pc = "delegate"
    /\ loaded_doc # <<>>
    /\ loaded_doc[1] = JoinLF(<<Marker("x") \o Desc1, Marker(" ") \o Desc2>>)
    /\ Len(read_tasks) = 2
    /\ read_tasks[1].completed
    /\ delegated = <<2>>
    /\ tasks[2].original = Desc2

\* the retry loop and the fallback are over and the document they leave does
\* not show the completed marker of the task executed
Unconverged(file) == ExecuteReturns /\ ~ShowsCompleted(file, tasks[next_task])

\* execute_task_with_manus returns normally from there: the task stays
\* completed, it is added to the summary and the step ends without raising
ReturnsNormally ==
    /\ pc' = "check_stuck"
    /\ tasks' = tasks
    /\ tasks[next_task].completed
    /\ summary' = Append(summary, next_task)
    /\ exc' = "none" /\ step_exc' = NoExc

\* a step that starts while the document still lacks the marker of the task
\* executed last delegates another task, when one is incomplete
GoesOn ==
    (/\ pc = "step"
     /\ next_task # 0
     /\ ~ShowsCompleted(todo_file, tasks[next_task])
     /\ get_next_task(tasks) # 0)
    => /\ pc' = "delegate"
       /\ next_task' # next_task
       /\ next_task' = get_next_task(tasks)

\* C21: when the checklist document still does not show the task's completed
\* marker after the three rewrite attempts and the line-level substitution,
\* execute_task_with_manus returns normally, the task stays completed in
\* memory, and the Coordinator goes on to the next task.
C21_UnconvergedDoesNotAbort ==
    /\ [][Unconverged(FileAtReturn) => ReturnsNormally]_vars
    /\ [][GoesOn]_vars

\* C21 witness: a second task is delegated while the document does not show
\* the marker of the first, which went through the attempts and the fallback
C21_Witness ==
    /\ pc = "delegate"
    /\ Len(delegated) = 2
    /\ attempt = max_retries
    /\ ~update_successful
    /\ tasks[delegated[1]].completed
    /\ ~ShowsCompleted(todo_file, tasks[delegated[1]])

\* the last step made finalised the run
FinalizeStepDone == phases # <<>> /\ phases[Len(phases)] = "finalize"

\* the document ends with the text t
EndsWith(file, t) ==
    /\ Len(file) >= Len(t)
    /\ SubSeq(file, Len(file) - Len(t) + 1, Len(file)) = t

\* C22: when a step finds a non-empty task list with no incomplete task, it
\* appends the execution summary to the checklist document and sets the state
\* to Finished; run() then makes no further step and no task is delegated.
C22_FinalizeEndsRun ==
    FinalizeStepDone =>
        /\ tasks # <<>>
        /\ \A i \in 1..Len(tasks) : tasks[i].completed
        /\ EndsWith(todo_file, ExecutionSummary(summary, tasks))
        /\ finish_seen
        /\ pc \in {"check_stuck", "loop", "returned"}
        /\ pc \in {"check_stuck", "loop"} => state = "FINISHED"
        /\ pc = "returned" => final_result = "completed"

\* C22 witness: a run that delegated two tasks was finalised and has returned
\* with steps to spare
C22_Witness ==
    /\ FinalizeStepDone
    /\ pc = "returned"
    /\ Len(delegated) = 2
    /\ step_calls < max_steps

\* every task completed in memory is still held, and still completed, after
\* the step
FlagsKept ==
    \A i \in 1..Len(tasks) :
        tasks[i].completed =>
            /\ i <= Len(tasks')
            /\ tasks'[i].original = tasks[i].original
            /\ tasks'[i].completed

\* C23: during a Coordinator run the completed flag of a task never changes
\* from true to false, whatever the loads, rewrites of the document and task
\* executions.
C23_CompletedNeverReverts == [][FlagsKept]_vars

\* C23 witness: the first task delegated is still completed when the run of
\* the second has ended
C23_Witness ==
    /\ pc = "persist"
    /\ Len(delegated) = 2
    /\ tasks[delegated[1]].completed
    /\ tasks[delegated[2]].completed

StepPhases ==
    {<<"context">>,
     <<"generate">>, <<"context", "generate">>,
     <<"load", "generate">>, <<"load", "context", "generate">>,
     <<"execute">>, <<"load", "execute">>,
     <<"finalize">>, <<"load", "finalize">>}

\* a call that holds no task and finds a checklist on disk loads it and goes
\* on in the same call
LoadsAndGoesOn ==
    (pc = "step" /\ ~NeedsContext /\ tasks = <<>> /\ todo_file # Absent)
        => /\ Len(phases') >= 2
           /\ Head(phases') = "load"

C30_ContextGeneratedOnce ==
    /\ ctx_writes <= 1
    /\ delegated # <<>> => ctx_writes = 1

\* the Context.md found when the run started is still the one on disk
ContextOfEarlierRun == context_file = <<"old context">>

\* C30 amended: a run generates the Context Document at most once and never
\* after a task was delegated.  It generates it exactly once before the first
\* task is delegated, unless Context.md was on disk when the run started and
\* the tasks were loaded from a checklist on disk: then the run generates no
\* Context Document and Context.md stays as it was found.
C30_ContextAtMostOnce ==
    /\ ctx_writes <= 1
    /\ delegated # <<>> =>
          /\ ctx_writes = (IF ContextOfEarlierRun THEN 0 ELSE 1)
          /\ ctx_writes = 0 => read_tasks # <<>>
    /\ ctx_writes = 1 => (context_file # Absent /\ ~ContextOfEarlierRun)

\* C30 witness: a run that found Context.md and a checklist on disk has
\* delegated two tasks and generated no Context Document
C30_Witness ==
    /\ Len(delegated) = 2
    /\ ctx_writes = 0
    /\ ContextOfEarlierRun
    /\ read_tasks # <<>>
    /\ pc = "check_stuck"

\* C36: every task prompt built during run("req") embeds "req" as its original
\* request (execute_task_with_manus, line 470, formats self.original_request
\* into the prompt it hands to the delegated run), also when a Context.md or
\* a TODO.md of an earlier run is on disk at the start.
C36_PromptEmbedsRequest == pc = "delegate" => original_request = "req"

\* the numbers of the lines of the checklist on disk that are marked "- [x]"
MarkedComplete(file) ==
    IF file = Absent THEN {}
    ELSE {i \in 1..Len(ReadLines(file)) :
            LET stripped == Strip(ReadLines(file)[i]) IN
            TaskHeadAt(stripped, 1) /\ stripped[4] = "x"}

\* C37: the Coordinator never rewrites a line marked "- [x]" on disk back to
\* "- [ ]": in every step of a run, loading and task execution included, the
\* set of the lines marked complete on disk only grows.
C37_MarkedLinesOnlyGrow ==
    [][MarkedComplete(todo_file) \subseteq MarkedComplete(todo_file')]_vars

-----------------------------------------------------------------------------
(* The Coordinator in an empty workspace *)

\* no Context.md and no TODO.md on disk, and max_steps of at least the number
\* of tasks a generated checklist can hold plus three
InitFresh ==
    /\ InitCoord
    /\ todo_file = Absent
    /\ context_file = Absent
    /\ max_steps = EnoughSteps

\* step() is suspended in an await: on the language model (context, checklist),
\* on the delegated run, or on the sleep between two attempts to persist
InStep == pc \in {"step", "delegate", "persist"}

\* Outside step() the run loop has no await and goes on to its next
\* statement.  Inside step() every await returns: the language model answers,
\* the delegated run returns, raises or is cut by the timeout of wait_for.
\* The second condition is the weak fairness of the actions of step(), with
\* InStep written for their being enabled (some action of step() is enabled
\* in every state in which InStep holds).
FreshCoord ==
    /\ InitFresh
    /\ [][NextCoord]_vars
    /\ WF_vars(~InStep /\ NextCoord)
    /\ ([]<>~InStep \/ []<><<NextCoord>>_vars)

\* run() has returned from the Done phase: state Finished was set, the summary
\* is at the end of the checklist, the result is not the max-steps result
DoneReached ==
    /\ pc = "returned"
    /\ finish_seen
    /\ final_result = "completed"
    /\ tasks # <<>>
    /\ \A i \in 1..Len(tasks) : tasks[i].completed
    /\ todo_file # Absent
    /\ EndsWith(todo_file, ExecutionSummary(summary, tasks))

\* each of the tasks was delegated exactly once
EachDelegatedOnce ==
    /\ Len(delegated) = Len(tasks)
    /\ \A i \in 1..Len(tasks) : \E k \in 1..Len(delegated) : delegated[k] = i

-----------------------------------------------------------------------------
(* WebSocketManager: chat messages of the connections *)

\* chat messages received over all connections (caps Len(chats))
MaxChats == 3

\* process_chat_message's test of self.manus_running, always admitting
AdmitRun_mut(running) == TRUE
\* process_chat_message's test of self.manus_running
AdmitRun(running) == ~running

\* The event loop runs its ready callbacks in the order they were scheduled:
\* between the creation of a task and its first step, a coroutine that was
\* already scheduled to resume takes at most one step (up to its next
\* suspension).
NoneOvertaken(cs) == \A j \in 1..Len(cs) : cs[j].at = "created" => ~cs[j].overtaken
Overtake(cs) ==
    [j \in 1..Len(cs) |->
        IF cs[j].at = "created" THEN [cs[j] EXCEPT !.overtaken = TRUE] ELSE cs[j]]

\* the status the finally clause leaves
StatusAtEnd(s) == IF s # "error" /\ s # "done" THEN "done" ELSE s

InitWeb ==
    /\ webIdle
    /\ max_steps = 1
    /\ current_step = 0
    /\ state = "IDLE"
    /\ entry_state = "none"
    /\ sandbox = "none"
    /\ previous_state = "IDLE"
    /\ messages = <<>>
    /\ stuck_prompts = 0
    /\ pc = "ready"
    /\ final_result = "none"
    /\ exc = "none"
    /\ step_calls = 0
    /\ stuck_seen = FALSE
    /\ finish_seen = FALSE
    /\ step_exc = NoExc
    /\ tool_choices = "auto"
    /\ tcIdle
    /\ coIdle

\* websocket_endpoint: manager.connect(websocket)
Connect(c) ==
    /\ c \notin active_connections
    /\ active_connections' = active_connections \cup {c}
    /\ UNCHANGED <<manus_running, status, chats, notices, current_action, shown, sockets>>

\* websocket_endpoint leaving its loop: manager.disconnect(websocket)
Disconnect(c) ==
    /\ c \in active_connections
    /\ active_connections' = active_connections \ {c}
    /\ UNCHANGED <<manus_running, status, chats, notices, current_action, shown, sockets>>

\* websocket_endpoint receiving a message of type "chat":
\* asyncio.create_task(manager.process_chat_message(...)); the task has not
\* run yet
ChatMessage(c) ==
    /\ c \in active_connections
    /\ Len(chats) < MaxChats
    /\ chats' = Append(chats, [conn |-> c, at |-> "created",
                               arrived_busy |-> manus_running,
                               overtaken |-> FALSE,
                               began_busy |-> FALSE])
    /\ UNCHANGED <<manus_running, status, active_connections, notices, current_action, shown, sockets>>

\* process_chat_message up to its first await with manus_running set: the
\* busy notice is broadcast and the coroutine returns
ProcessBusy(k) ==
    /\ chats[k].at = "created"
    /\ ~AdmitRun(manus_running)
    /\ notices' = notices + 1
    /\ chats' = [chats EXCEPT ![k].at = "rejected", ![k].began_busy = manus_running]
    /\ UNCHANGED <<manus_running, status, active_connections, current_action, shown, sockets>>

\* process_chat_message up to its first await otherwise: the flag is set and
\* the status updated with no await in between
ProcessStart(k) ==
    /\ chats[k].at = "created"
    /\ AdmitRun(manus_running)
    /\ manus_running' = TRUE
    /\ status' = "thinking"
    /\ chats' = [chats EXCEPT ![k].at = "running", ![k].began_busy = manus_running]
    /\ UNCHANGED <<active_connections, notices, current_action, shown, sockets>>

\* agent.run(content) and the report of its result, or an exception caught by
\* the handler
AgentRunEnds(k) ==
    /\ chats[k].at = "running"
    /\ NoneOvertaken(chats)
    /\ \E how \in {"done", "error"} : status' = how
    /\ chats' = Overtake([chats EXCEPT ![k].at = "finishing"])
    /\ UNCHANGED <<manus_running, active_connections, notices, current_action, shown, sockets>>

\* the last resumption of the coroutine: it runs to the end of the finally
\* clause
ProcessEnd(k) ==
    /\ chats[k].at = "finishing"
    /\ NoneOvertaken(chats)
    /\ status' = StatusAtEnd(status)
    /\ manus_running' = FALSE
    /\ chats' = Overtake([chats EXCEPT ![k].at = "over"])
    /\ UNCHANGED <<active_connections, notices, current_action, shown, sockets>>

NextWeb ==
    \/ (\E c \in Connections : Connect(c)) /\ UNCHANGED <<baseVars, tcVars, coVars>>
    \/ (\E c \in Connections : Disconnect(c)) /\ UNCHANGED <<baseVars, tcVars, coVars>>
    \/ (\E c \in Connections : ChatMessage(c)) /\ UNCHANGED <<baseVars, tcVars, coVars>>
    \/ (\E k \in 1..Len(chats) : ProcessBusy(k)) /\ UNCHANGED <<baseVars, tcVars, coVars>>
    \/ (\E k \in 1..Len(chats) : ProcessStart(k)) /\ UNCHANGED <<baseVars, tcVars, coVars>>
    \/ (\E k \in 1..Len(chats) : AgentRunEnds(k)) /\ UNCHANGED <<baseVars, tcVars, coVars>>
    \/ (\E k \in 1..Len(chats) : ProcessEnd(k)) /\ UNCHANGED <<baseVars, tcVars, coVars>>

SpecWeb == InitWeb /\ [][NextWeb]_vars

-----------------------------------------------------------------------------
(* Claims checked under SpecWeb *)

\* the process_chat_message tasks whose agent run is in progress
RunsInProgress == {k \in 1..Len(chats) : chats[k].at \in {"running", "finishing"}}

AtMostOneRun == Cardinality(RunsInProgress) <= 1

\* C24 as stated: at most one run is in progress, and a chat message received
\* while a run is in progress starts no run and gets the busy notice.
C24_ArrivalWhileBusyIsRejected ==
    /\ AtMostOneRun
    /\ \A k \in 1..Len(chats) :
           chats[k].arrived_busy => chats[k].at \in {"created", "rejected"}

\* C24 amended: at most one run is in progress at any time; a chat message
\* whose processing begins while a run is in progress starts no run and the
\* busy notice is broadcast for it, and the flag is set exactly while a run is
\* in progress.
C24_AtMostOneRun ==
    /\ AtMostOneRun
    /\ manus_running = (RunsInProgress # {})
    /\ \A k \in 1..Len(chats) :
           (chats[k].at # "created" /\ chats[k].began_busy) => chats[k].at = "rejected"
    /\ notices = Cardinality({k \in 1..Len(chats) : chats[k].at = "rejected"})

\* C24 witness: a message of one connection was turned away while the run
\* started from another connection is in progress
C24_Witness ==
    \E j, k \in 1..Len(chats) :
        /\ chats[j].at = "running"
        /\ chats[k].at = "rejected"
        /\ chats[j].conn # chats[k].conn
        /\ notices = 1

-----------------------------------------------------------------------------
(* parse_tasks on a checklist document, create_todo_file on an answer *)

\* the lines of a document: those of BodyLines, and task lines whose
\* description starts with a number and no "Task" word ("2 b", "2. b")
ParseLines ==
    BodyLines \cup {Marker(" ") \o <<"2", " ", "b">>,
                    Marker(" ") \o <<"2", ".", " ", "b">>}
ParseDocs ==
    {JoinLF(body) : body \in UNION {[1..n -> ParseLines] : n \in 1..MaxDocLines}}

\* A CoordinatorAgent holding no tasks, and a checklist document
InitParse ==
    /\ todo_file \in ParseDocs
    /\ max_steps = 1
    /\ current_step = 0
    /\ state = "IDLE"
    /\ entry_state = "none"
    /\ sandbox = "none"
    /\ previous_state = "IDLE"
    /\ messages = <<>>
    /\ stuck_prompts = 0
    /\ pc = "ready"
    /\ final_result = "none"
    /\ exc = "none"
    /\ step_calls = 0
    /\ stuck_seen = FALSE
    /\ finish_seen = FALSE
    /\ step_exc = NoExc
    /\ tool_choices = "auto"
    /\ tcIdle
    /\ tasks = <<>>
    /\ context_file = Absent
    /\ context_content \in {<<>>, <<"old context">>}
    /\ summary = <<>>
    /\ next_task = 0
    /\ delegated = <<>>
    /\ run_result = <<>>
    /\ delegate_end = "none"
    /\ todo_before = <<>>
    /\ attempt = 0
    /\ update_successful = FALSE
    /\ original_request = ""
    /\ ctx_writes = 0
    /\ phases = <<>>
    /\ loaded_doc = <<>>
    /\ read_tasks = <<>>
    /\ webIdle

\* parse_tasks(todo_content) on the content of the document
ParseCall ==
    /\ pc = "ready"
    /\ LET p == parse_tasks(todo_file, tasks, todo_file)
       IN  /\ tasks' = p.tasks
           /\ todo_file' = p.file
           /\ loaded_doc' = <<todo_file, p.file>>
    /\ pc' = "returned"
    /\ UNCHANGED <<state, previous_state, current_step, max_steps, messages,
                   stuck_prompts, final_result, exc, step_calls, stuck_seen,
                   finish_seen, entry_state, sandbox>>
    /\ UNCHANGED <<context_file, context_content, summary, next_task, delegated,
                   run_result, delegate_end, todo_before, attempt,
                   update_successful, original_request, ctx_writes, phases,
                   read_tasks>>

\* create_todo_file(request): the context first when none is in memory, then
\* the answer of the model filtered, written to TODO.md and parsed
CreateTodoFile ==
    /\ pc = "ready"
    /\ IF LacksContext(context_content)
       THEN /\ \E answer \in ContextAnswers :
                  /\ context_content' = ContextFrom(answer)
                  /\ context_file' = ContextFrom(answer)
            /\ ctx_writes' = ctx_writes + 1
       ELSE UNCHANGED <<context_content, context_file, ctx_writes>>
    /\ \E answer \in TodoAnswers :
          /\ response' = [kind |-> "text", content |-> answer, tool_calls |-> NoCalls]
          /\ Planned(PlanResult(TodoFrom(answer), tasks))
    /\ pc' = "returned"
    /\ UNCHANGED <<state, previous_state, current_step, max_steps, messages,
                   stuck_prompts, final_result, exc, step_calls, stuck_seen,
                   finish_seen, entry_state, sandbox>>
    /\ UNCHANGED <<summary, next_task, delegated, run_result, delegate_end,
                   todo_before, attempt, update_successful, original_request,
                   phases, loaded_doc, read_tasks>>
    /\ UNCHANGED <<tool_choices, tool_calls, think_ret, next_id, act_i, sent,
                   step_exc>>

NextParse ==
    \/ ParseCall /\ UNCHANGED <<tcVars, webVars>>
    \/ CreateTodoFile /\ UNCHANGED webVars

SpecParse == InitParse /\ [][NextParse]_vars

-----------------------------------------------------------------------------
(* Claims checked under SpecParse *)

\* the description begins with "Task", white space, a number and a colon
HasTaskPrefix(d) ==
    /\ StartsAt(d, 1, <<"T", "a", "s", "k">>)
    /\ Len(d) >= 5
    /\ IsSpace(d[5])
    /\ LET after == LStrip(From(d, 5))
           rest == From(after, Len(Digits(after)) + 1)
       IN  Digits(after) # <<>> /\ rest # <<>> /\ Head(rest) = ":"
PrefixNumber(d) == ToInt(Digits(LStrip(From(d, 5))))

\* the number the k-th checklist line of the document is to get
StatedNumber(d, k) == IF HasTaskPrefix(d) THEN PrefixNumber(d) ELSE k

NumberedAsStated(matches) ==
    \A k \in 1..Len(matches) :
        \E i \in 1..Len(tasks) :
            /\ tasks[i].original = Strip(matches[k].text)
            /\ tasks[i].number = StatedNumber(Strip(matches[k].text), k)

\* C25: every checklist line parsed by parse_tasks gets the number N of its
\* "Task N:" prefix, and without such a prefix its 1-based position among the
\* checklist lines of the document.
C25_NumberFromPrefixOrPosition ==
    (pc = "returned" /\ loaded_doc # <<>>)
        => NumberedAsStated(TaskMatches(loaded_doc[1], 1))

\* the lines of the answer of the form "- [ ] <description>" or
\* "- [x] <description>", in order
RECURSIVE ChecklistLines(_)
ChecklistLines(lines) ==
    IF lines = <<>> THEN <<>>
    ELSE (IF TaskHeadAt(Head(lines), 1) THEN <<Head(lines)>> ELSE <<>>)
            \o ChecklistLines(Tail(lines))

\* C26: create_todo_file persists exactly the valid checklist lines of the
\* model's answer: each of them is kept and parsed into a task, and no header
\* or prose line is kept.
C26_PersistsExactlyChecklistLines ==
    (pc = "returned" /\ response.kind = "text")
        => /\ SplitLF(todo_file) = ChecklistLines(SplitLF(response.content))
           /\ Len(tasks) = Len(ChecklistLines(SplitLF(response.content)))

-----------------------------------------------------------------------------
(* BaseAgent.run() on an agent that holds a conversation *)

\* messages of the conversation an agent holds when run() is called
MaxPrior == 3
PriorMessages ==
    {user_message("q"), assistant_message("a"),
     from_tool_calls("", <<[id |-> 1, name |-> "python_execute"]>>),
     tool_message("r", 1), tool_message("r", 2)}
PriorConversations == UNION {[1..n -> PriorMessages] : n \in 0..MaxPrior}

InitRepair ==
    /\ messages \in PriorConversations
    /\ max_steps = 1
    /\ current_step = 0
    /\ state = "IDLE"
    /\ entry_state = "none"
    /\ sandbox = "none"
    /\ previous_state = "IDLE"
    /\ stuck_prompts = 0
    /\ pc = "ready"
    /\ final_result = "none"
    /\ exc = "none"
    /\ step_calls = 0
    /\ stuck_seen = FALSE
    /\ finish_seen = FALSE
    /\ step_exc = NoExc
    /\ tool_choices = "auto"
    /\ tcIdle
    /\ coIdle
    /\ webIdle

SpecRepair == InitRepair /\ [][NextLoop]_vars

-----------------------------------------------------------------------------
(* Claims checked under SpecRepair *)

\* the ids declared by the assistant messages of the conversation
DeclaredIds(msgs) ==
    UNION {{c.id : c \in Range(msgs[i].tool_calls)} :
              i \in {j \in 1..Len(msgs) : msgs[j].role = "assistant"}}
\* the tool messages whose id no assistant message declares
OrphanTools(msgs) ==
    {i \in 1..Len(msgs) :
        msgs[i].role = "tool" /\ msgs[i].tool_call_id \notin DeclaredIds(msgs)}

\* run() has entered its loop and no step has run yet
EnteredLoop == pc = "loop" /\ step_calls = 0

\* C31: after the repair run() makes before its loop, no tool message remains
\* whose id no assistant message of the conversation declares, also when
\* several tool messages carry the same such id.
C31_NoOrphanToolMessageLeft ==
    EnteredLoop => OrphanTools(messages) = {}

\* the conversation after is the conversation before without some of its
\* orphan tool messages
OnlyOrphansRemoved(before, after) ==
    \E S \in SUBSET OrphanTools(before) :
        after = KeepIdx(before, (1..Len(before)) \ S, 1)

\* C32: run(request) with a request enters the loop with a conversation made
\* of the request as a user message and nothing else, whatever the agent held;
\* run() without a request leaves the conversation as it was, orphan tool
\* messages removed or not.
C32_RequestReplacesMemory ==
    /\ [][RunEnter("req") => messages' = <<user_message("req")>>]_vars
    /\ [][RunEnter("") => OnlyOrphansRemoved(messages, messages')]_vars

\* C32 witness: run("req") has entered its loop
C32_Witness ==
    /\ EnteredLoop
    /\ messages = <<user_message("req")>>

-----------------------------------------------------------------------------
(* truncate_text on the texts the server shows *)

\* longest text, and largest limit of a call of truncate_text
MaxText == 5
MaxLimit == 4
Texts == UNION {[1..n -> {"a", "."}] : n \in 0..MaxText}
Ellipsis == <<".", ".", ".">>

\* truncate_text cutting at max_length before adding the dots
truncate_text_mut(text, max_length) ==
    IF Len(text) <= max_length THEN text
    ELSE SubSeq(text, 1, max_length) \o Ellipsis
\* truncate_text: text[:max_length-3] + "..."
truncate_text(text, max_length) ==
    IF Len(text) <= max_length THEN text
    ELSE SubSeq(text, 1, max_length - 3) \o Ellipsis

InitTruncate ==
    /\ current_action \in Texts
    /\ shown = NoneShown
    /\ sockets = [c \in Connections |-> NoSocket]
    /\ manus_running = FALSE
    /\ status = "idle"
    /\ active_connections = {}
    /\ chats = <<>>
    /\ notices = 0
    /\ max_steps = 1
    /\ current_step = 0
    /\ state = "IDLE"
    /\ entry_state = "none"
    /\ sandbox = "none"
    /\ previous_state = "IDLE"
    /\ messages = <<>>
    /\ stuck_prompts = 0
    /\ pc = "ready"
    /\ final_result = "none"
    /\ exc = "none"
    /\ step_calls = 0
    /\ stuck_seen = FALSE
    /\ finish_seen = FALSE
    /\ step_exc = NoExc
    /\ tool_choices = "auto"
    /\ tcIdle
    /\ coIdle

\* a status or chat message built from a text: the text is shortened to the
\* limit of the call site
ShowText ==
    /\ shown = NoneShown
    /\ \E max_length \in 3..MaxLimit :
          shown' = [max_length |-> max_length,
                    text |-> truncate_text(current_action, max_length)]
    /\ UNCHANGED <<manus_running, status, active_connections, chats, notices,
                   current_action, sockets>>

NextTruncate == ShowText /\ UNCHANGED <<baseVars, tcVars, coVars>>

SpecTruncate == InitTruncate /\ [][NextTruncate]_vars

-----------------------------------------------------------------------------
(* Claims checked under SpecTruncate *)

\* C33: for every text and every max_length of 3 or more, truncate_text
\* returns the text unchanged when it is no longer than max_length, and
\* otherwise a text of exactly max_length characters that ends with "...".
C33_TruncateLength ==
    shown # NoneShown =>
        IF Len(current_action) <= shown.max_length
        THEN shown.text = current_action
        ELSE /\ Len(shown.text) = shown.max_length
             /\ SubSeq(shown.text, Len(shown.text) - 2, Len(shown.text)) = Ellipsis

\* C33 witness: a text of five characters was shortened to the limit
C33_Witness ==
    /\ shown # NoneShown
    /\ Len(current_action) = 5
    /\ Len(shown.text) = shown.max_length

-----------------------------------------------------------------------------
(* ToolCallAgent._clean_orphaned_tool_calls on the conversations an agent may hold *)

HeldMessages ==
    {user_message("q"),
     from_tool_calls("", <<[id |-> 1, name |-> "python_execute"]>>),
     from_tool_calls("a", <<[id |-> 2, name |-> "python_execute"]>>),
     from_tool_calls("", <<[id |-> 1, name |-> "python_execute"],
                           [id |-> 2, name |-> "terminate"]>>),
     tool_message("r", 1), tool_message("r", 2)}

InitOrphans ==
    /\ messages \in UNION {[1..n -> HeldMessages] : n \in 0..MaxPrior}
    /\ max_steps = 1
    /\ current_step = 0
    /\ state = "IDLE"
    /\ entry_state = "none"
    /\ sandbox = "none"
    /\ previous_state = "IDLE"
    /\ stuck_prompts = 0
    /\ pc = "step"
    /\ final_result = "none"
    /\ exc = "none"
    /\ step_calls = 0
    /\ stuck_seen = FALSE
    /\ finish_seen = FALSE
    /\ step_exc = NoExc
    /\ tool_choices = "auto"
    /\ tcIdle
    /\ coIdle
    /\ webIdle

\* think(), line 52: self._clean_orphaned_tool_calls(), which assigns the
\* cleaned list to self.messages; sent keeps the conversation it was given
CleanOrphans ==
    /\ pc = "step"
    /\ step_calls < 2
    /\ sent' = messages
    /\ messages' = _clean_orphaned_tool_calls(messages)
    /\ step_calls' = step_calls + 1
    /\ UNCHANGED <<state, finish_seen, pc, step_exc, tool_choices, tool_calls,
                   response, think_ret, next_id, act_i, previous_state,
                   entry_state, sandbox, current_step, max_steps, stuck_prompts,
                   final_result, exc, stuck_seen>>

NextOrphans == CleanOrphans /\ UNCHANGED <<coVars, webVars>>

SpecOrphans == InitOrphans /\ [][NextOrphans]_vars

\* no invocation id is declared twice in msgs
UniqueIds(msgs) ==
    \A i, j \in 1..Len(msgs) :
        \A p \in 1..Len(msgs[i].tool_calls), q \in 1..Len(msgs[j].tool_calls) :
            msgs[i].tool_calls[p].id = msgs[j].tool_calls[q].id => i = j /\ p = q

\* C38: the repair of the Tool-Calling Cycle is idempotent: for a conversation
\* whose invocation ids are unique, applying _clean_orphaned_tool_calls twice
\* gives the same conversation as applying it once.
C38_RepairIdempotent ==
    UniqueIds(messages) =>
        _clean_orphaned_tool_calls(_clean_orphaned_tool_calls(messages))
            = _clean_orphaned_tool_calls(messages)

\* C38 witness: the repair was applied twice to a conversation with unique
\* ids that held an answered and an unanswered invocation; the first
\* application took the invocation list of the unanswered one (its message
\* is left with its text "a"), the second changed nothing
C38_Witness ==
    /\ step_calls = 2
    /\ messages = sent
    /\ UniqueIds(messages)
    /\ \E i \in 1..Len(messages) :
          messages[i].role = "assistant" /\ messages[i].tool_calls # NoCalls
    /\ \E i \in 1..Len(messages) : messages[i] = assistant_message("a")

-----------------------------------------------------------------------------
(* WebSocketManager: the endpoint handler and the keep-alive task of each    *)
(* connection.  Time passes in periods of 30 seconds (Tick); a timer that is *)
(* due fires before more time passes, while an await on a send may last any  *)
(* number of periods.                                                        *)

\* ages above MaxAge periods are not told apart
MaxAge == 5
\* the endpoint's wait_for timeout (60 s) and the keep-alive's sleep (30 s),
\* in periods
ReceivePeriods == 2
SleepPeriods == 1
\* websocket_endpoint, lines 712-716: last_activity.get(websocket, 0) is more
\* than 120 seconds, four periods, old (no entry reads as time 0)
Inactive(last) == last = -1 \/ last > 4

\* the second connection is opened after the first, so active_connections,
\* a list in the code, holds the connections in this order
ConnOrder == <<"c1", "c2">>

\* "try: self.disconnect(websocket) except: pass" for the connections in D:
\* a connection in the list is removed and its entry deleted; for one that is
\* not, remove() raises before the entry is touched
Dropped(socks, D) ==
    [c \in Connections |->
        IF c \in D /\ c \in active_connections
        THEN [socks[c] EXCEPT !.last = -1] ELSE socks[c]]

webRest == <<manus_running, status, chats, notices, current_action, shown>>

\* websocket_endpoint up to its loop: manager.connect (accept, append, the
\* entry, status and file tree sent by send_personal_message, the keep-alive
\* task created), then the first wait_for
EpConnect(c) ==
    /\ sockets[c].ep = "none"
    /\ c = ConnOrder[1] \/ sockets[ConnOrder[1]].ep # "none"
    /\ \E sent_ok \in BOOLEAN :
          /\ active_connections' =
                IF sent_ok THEN active_connections \cup {c} ELSE active_connections
          /\ sockets' = [sockets EXCEPT ![c] =
                [ep |-> "recv", ka |-> "sleep",
                 last |-> IF sent_ok THEN 0 ELSE -1,
                 ep_due |-> ReceivePeriods, ka_due |-> SleepPeriods,
                 bc_at |-> 0, bc_failed |-> {}]]
    /\ UNCHANGED webRest

\* 30 seconds pass
Tick ==
    /\ \E c \in Connections : sockets[c].ep \notin {"none", "over", "raised"}
    /\ \A c \in Connections :
          /\ ~(sockets[c].ep = "recv" /\ sockets[c].ep_due = 0)
          /\ ~(sockets[c].ka = "sleep" /\ sockets[c].ka_due = 0)
    /\ sockets' = [c \in Connections |->
          [sockets[c] EXCEPT
             !.last = IF @ = -1 THEN -1 ELSE IF @ < MaxAge THEN @ + 1 ELSE @,
             !.ep_due = IF sockets[c].ep = "recv" THEN @ - 1 ELSE @,
             !.ka_due = IF sockets[c].ka = "sleep" THEN @ - 1 ELSE @]]
    /\ UNCHANGED <<active_connections, webRest>>

\* the connections of the list from position i on
ListedFrom(i) == {k \in i..Len(ConnOrder) : ConnOrder[k] \in active_connections}

\* websocket_endpoint, lines 663-708: a message is received; a chat message
\* creates a task, a ping or getFileContent is answered to the sender, a
\* refreshFileTree is broadcast (to nobody when the list is empty)
EpReceive(c) ==
    /\ sockets[c].ep = "recv"
    /\ \E type \in {"chat", "getFileContent", "refreshFileTree"} :
          sockets' = [sockets EXCEPT
             ![c].last = 0,
             ![c].ep = CASE type = "chat" -> "recv"
                         [] type = "getFileContent" -> "send"
                         [] type = "refreshFileTree" ->
                              IF ListedFrom(1) = {} THEN "recv" ELSE "bcast",
             ![c].ep_due = ReceivePeriods,
             ![c].bc_at = 1,
             ![c].bc_failed = {}]
    /\ UNCHANGED <<active_connections, webRest>>

\* broadcast, lines 75-90: the send to the next connection of the list ends;
\* after the last one the failed connections are disconnected and the
\* handler goes back to wait_for
BroadcastSend(c) ==
    /\ sockets[c].ep = "bcast"
    /\ ListedFrom(sockets[c].bc_at) # {}
    /\ LET left == ListedFrom(sockets[c].bc_at)
           i == CHOOSE i \in left : \A j \in left : i <= j
           d == ConnOrder[i]
       IN  \E sent_ok \in BOOLEAN :
              LET failed == IF sent_ok THEN sockets[c].bc_failed
                            ELSE sockets[c].bc_failed \cup {d}
                  after == [sockets EXCEPT ![d].last = IF sent_ok THEN 0 ELSE @]
              IN  IF ListedFrom(i + 1) # {}
                  THEN /\ sockets' = [after EXCEPT ![c].bc_at = i + 1,
                                                  ![c].bc_failed = failed]
                       /\ UNCHANGED active_connections
                  ELSE /\ sockets' = [Dropped(after, failed) EXCEPT
                                         ![c].ep = "recv",
                                         ![c].ep_due = ReceivePeriods,
                                         ![c].bc_at = 0,
                                         ![c].bc_failed = {}]
                       /\ active_connections' = active_connections \ failed
    /\ UNCHANGED webRest

\* websocket_endpoint, lines 710-728: wait_for timed out; the handler leaves
\* its loop when the connection was inactive, and sends a ping otherwise
EpTimeout(c) ==
    /\ sockets[c].ep = "recv"
    /\ sockets[c].ep_due = 0
    /\ sockets' = [sockets EXCEPT ![c].ep =
                      IF Inactive(sockets[c].last) THEN "over" ELSE "send"]
    /\ UNCHANGED <<active_connections, webRest>>

\* send_personal_message, lines 98-116, called by the handler: the send ends;
\* a failure disconnects the connection and is not raised, so the handler
\* goes back to wait_for either way
EpSendDone(c) ==
    /\ sockets[c].ep = "send"
    /\ \E sent_ok \in BOOLEAN :
          IF sent_ok
          THEN /\ sockets' = [sockets EXCEPT ![c].last = 0, ![c].ep = "recv",
                                             ![c].ep_due = ReceivePeriods]
               /\ UNCHANGED active_connections
          ELSE /\ sockets' = [Dropped(sockets, {c}) EXCEPT
                                 ![c].ep = "recv", ![c].ep_due = ReceivePeriods]
               /\ active_connections' = active_connections \ {c}
    /\ UNCHANGED webRest

\* websocket_endpoint, lines 730-738: receive_text raises.  WebSocketDisconnect
\* calls manager.disconnect, whose remove() raises ValueError out of the
\* handler when the connection is not in the list; any other exception
\* disconnects only a connection that is in the list
EpClientGone(c) ==
    /\ sockets[c].ep = "recv"
    /\ \E e \in {"WebSocketDisconnect", "Exception"} :
          sockets' = [Dropped(sockets, {c}) EXCEPT ![c].ep =
                        IF e = "WebSocketDisconnect" /\ c \notin active_connections
                        THEN "raised" ELSE "over"]
    /\ active_connections' = active_connections \ {c}
    /\ UNCHANGED webRest

\* _keep_alive, lines 121-126: the sleep is over; the task ends when the
\* connection is not in the list, and sends a ping otherwise
KeepAliveWakes(c) ==
    /\ sockets[c].ka = "sleep"
    /\ sockets[c].ka_due = 0
    /\ sockets' = [sockets EXCEPT ![c].ka =
                      IF c \in active_connections THEN "send" ELSE "over"]
    /\ UNCHANGED <<active_connections, webRest>>

\* _keep_alive, lines 128-139 and the loop condition: the send of the ping
\* ends; a failure disconnects a connection that is in the list and ends the
\* task
KeepAlivePingDone(c) ==
    /\ sockets[c].ka = "send"
    /\ \E sent_ok \in BOOLEAN :
          IF sent_ok
          THEN /\ sockets' = [sockets EXCEPT
                     ![c].last = 0,
                     ![c].ka = IF c \in active_connections THEN "sleep" ELSE "over",
                     ![c].ka_due = SleepPeriods]
               /\ UNCHANGED active_connections
          ELSE /\ sockets' = [Dropped(sockets, {c}) EXCEPT ![c].ka = "over"]
               /\ active_connections' = active_connections \ {c}
    /\ UNCHANGED webRest

NextEndpoint ==
    \/ \E c \in Connections : EpConnect(c) /\ UNCHANGED <<baseVars, tcVars, coVars>>
    \/ Tick /\ UNCHANGED <<baseVars, tcVars, coVars>>
    \/ \E c \in Connections : EpReceive(c) /\ UNCHANGED <<baseVars, tcVars, coVars>>
    \/ \E c \in Connections : BroadcastSend(c) /\ UNCHANGED <<baseVars, tcVars, coVars>>
    \/ \E c \in Connections : EpTimeout(c) /\ UNCHANGED <<baseVars, tcVars, coVars>>
    \/ \E c \in Connections : EpSendDone(c) /\ UNCHANGED <<baseVars, tcVars, coVars>>
    \/ \E c \in Connections : EpClientGone(c) /\ UNCHANGED <<baseVars, tcVars, coVars>>
    \/ \E c \in Connections : KeepAliveWakes(c) /\ UNCHANGED <<baseVars, tcVars, coVars>>
    \/ \E c \in Connections : KeepAlivePingDone(c) /\ UNCHANGED <<baseVars, tcVars, coVars>>

SpecEndpoint == InitWeb /\ [][NextEndpoint]_vars

\* C40: whenever the websocket endpoint handler of a connection has
\* terminated (client disconnect, error, failed ping or inactivity timeout),
\* the connection is not in active_connections, under every interleaving
\* with broadcasts and keep-alive pings.
C40_TerminatedIsRemoved ==
    \A c \in Connections :
        sockets[c].ep \in {"over", "raised"} => c \notin active_connections

====
